---- MODULE Spec2Model ----
(***************************************************************************)
(* Sprout appliance-pool lifecycle manager (sprout/appliances/tasks.py).   *)
(*                                                                         *)
(* The database rows (Template, Appliance, AppliancePool,                  *)
(* DelayedProvisionTask), the provider-side virtual machines and the       *)
(* Celery task messages in flight are the state.  Every task handler is    *)
(* one action that consumes one message of the queue.                      *)
(***************************************************************************)
EXTENDS Integers, Sequences, FiniteSets, Bags, TLC

\* ------------------------------------------------------------------ bounds
MaxAppliances == 3      \* appliance ids ever handed out
MaxTime == 1            \* the clock runs 0..MaxTime
MaxFaults == 2          \* provider calls that may raise in one behaviour
MaxQueue == 3           \* task messages in flight
MaxTemplates == 2       \* template ids ever handed out
MaxSpares == 5          \* unattached appliances the shepherd starts with
MaxWorkers == 2         \* worker processes that run start_task

\* ------------------------------------------------------- program constants
DefaultMinutes == 60            \* kill_appliance(..., minutes=60)
CloneRetries == 5               \* clone step: max_retries=5
WaitPresentRetries == 30        \* wait_present: max_retries=30
PowerOnRetries == 30            \* appliance_power_on: max_retries=30
PowerOffRetries == 40           \* appliance_power_off: max_retries=40
SuspendRetries == 30           \* appliance_suspend: max_retries=30
KillDeleteRetries == 5          \* kill_appliance_delete: max_retries=5
LeaseWatchRetries == 50         \* apply_lease_times_after_pool_fulfilled
RetrieveIpRetries == 20         \* retrieve_appliance_ip: max_retries=20
WaitReadyRetries == 45          \* wait_appliance_ready: max_retries=45
TemplateRetries == 5            \* every prepare_template_* step

None == 0                       \* Python None / SQL NULL for ids and times
NoTime == 0 - 1                 \* NULL timestamp

Providers == {1, 2}
Groups == {1}
Originals == {1}                \* source template names the tracker lists
Leases == {1, 2}                \* lease minutes a requester may ask for
ApplianceIds == 1 .. MaxAppliances
Times == 0 .. MaxTime

VARIABLES
  start,        \* start_task of each worker: worker -> [pc, i]
  rpools,       \* ResultsPool objects: id -> [results, submitted, closed, ...]
  surplus,      \* the shepherd pass under way: [pc, grp, ids] it has read
  groups,       \* Group rows: id -> [template_pool_size]
  providers,    \* Provider rows: id -> [working, free]
  templates,    \* Template rows: id -> record
  appliances,   \* Appliance rows: id -> record
  pools,        \* AppliancePool rows: id -> record
  dpts,         \* DelayedProvisionTask rows (a bag of records)
  vms,          \* provider side: appliance VM state by appliance id
  tvms,         \* provider side: template VM state by template id
  queue,        \* Celery messages in flight (a bag of records)
  nextId,       \* next Appliance primary key
  nextTpl,      \* next Template primary key
  now,          \* timezone.now()
  faults,       \* provider calls that raised so far
  last,         \* what the last task invocation did (history)
  hist          \* per-entity history of the steps that returned

vars == <<start, rpools, surplus, groups, providers, templates, appliances, pools, dpts, vms, tvms, queue,
          nextId, nextTpl, now, faults, last, hist>>

\* No shepherd pass is under way.
NoSurplus == [pc |-> "idle", grp |-> 0, ids |-> {}]

\* No worker has run start_task yet.
Workers == 1 .. MaxWorkers
NotStarted == [w \in Workers |-> [pc |-> "idle", i |-> 0]]

\* ------------------------------------------------------------ Celery layer
NoAux == <<0, 0, 0>>

\* An immutable signature task.si(args).
Sig(task, id, lease, flag, aux) ==
  [task |-> task, id |-> id, lease |-> lease, flag |-> flag, aux |-> aux]

\* A message: the signature, whether the positional arguments match the
\* handler's parameters, the retry count, the rest of the chain, the errbacks.
Msg(sig, cbs, ebs) ==
  [task |-> sig.task, id |-> sig.id, lease |-> sig.lease, flag |-> sig.flag,
   aux |-> sig.aux, argsok |-> TRUE, retries |-> 0, cbs |-> cbs, ebs |-> ebs]

One(x) == SetToBag({x})

\* The self-rescheduling tasks, in the order start_task schedules them.
StartOrder ==
  <<"retrieve_appliances_power_states", "free_appliance_shepherd",
    "kill_unused_appliances", "delete_nonexistent_appliances", "poke_providers",
    "poke_trackerbot", "retrieve_template_existence",
    "process_delayed_provision_tasks">>

PeriodicTasks == {StartOrder[i] : i \in DOMAIN StartOrder}

\* The work in the queue: the messages of the periodic loops, one short
\* message per loop, are not counted against the queue bound.
Work(q) == [m \in {x \in DOMAIN q : x.task \notin PeriodicTasks} |-> q[m]]

QueueSize(q) == BagCardinality(Work(q))

\* task.delay(...) / task.apply_async(...)
Send(q, sig) == q (+) One(Msg(sig, <<>>, <<>>))

\* chain(*sigs)() with link_error(errs): the first task is sent, the others
\* ride as its callbacks, and every task of the chain carries the errbacks.
StartChain(q, sigs, errs) == q (+) One(Msg(Head(sigs), Tail(sigs), errs))

RECURSIVE SendAll(_, _)
SendAll(q, sigs) ==
  IF sigs = <<>> THEN q ELSE SendAll(Send(q, Head(sigs)), Tail(sigs))

\* The task returned: its first callback is sent with the remaining chain.
\* A handler that emptied self.request.callbacks passes quit = TRUE.
Succeed(q, m, quit) ==
  IF quit \/ m.cbs = <<>> THEN q
  ELSE q (+) One(Msg(Head(m.cbs), Tail(m.cbs), m.ebs))

\* The task raised: every errback is sent.
Fail(q, m) == SendAll(q, m.ebs)

\* self.retry(args=..., max_retries=max): the same request again with the
\* retry count raised, or the failure once the count is used up.
Exhausted(m, max) == m.retries + 1 > max

RetryDroppingArgs(q, m, max, argsok) ==
  IF Exhausted(m, max) THEN Fail(q, m)
  ELSE q (+) One([m EXCEPT !.retries = @ + 1, !.argsok = argsok])

Retry(q, m, max) == RetryDroppingArgs(q, m, max, m.argsok)

RetryTwice_Dropped(q, m, max) == Fail(q, m)

\* self.retry(...) issued inside a try block whose "except Exception" handler
\* calls self.retry(...) again: the Retry exception raised by the first call
\* is caught and the request is re-sent a second time.
RetryTwice(q, m, max) ==
  IF Exhausted(m, max) THEN Fail(q, m)
  ELSE q (+) One([m EXCEPT !.retries = @ + 1]) (+) One([m EXCEPT !.retries = @ + 1])

Take(m) == queue (-) One(m)

Pending == BagToSet(queue)

\* ------------------------------------------------------------- the records
Appliance(t, p) ==
  [template |-> t, pool |-> p, ready |-> FALSE, marked |-> FALSE,
   power |-> "unknown", ip |-> FALSE, leased_until |-> NoTime,
   datetime_leased |-> NoTime, status_changed |-> now]

Template(prov, grp, ver, date, orig) ==
  [provider |-> prov, group |-> grp, version |-> ver, date |-> date,
   original |-> orig, ready |-> FALSE, exists |-> FALSE, status_changed |-> now]

\* A Provider row with what its provider_data and the provider itself say:
\* the "sprout" section, the use_for_sprout flag, and whether the provider
\* holds the source image of the tracker's template.
Provider(working, free) ==
  [working |-> working, free |-> free, sprout |-> TRUE, use_for_sprout |-> TRUE,
   image |-> TRUE]

DelayedProvisionTask(p, lease, avoid) ==
  [pool |-> p, lease_time |-> lease, provider_to_avoid |-> avoid]

Ids(rows) == DOMAIN rows

\* Insert / update / delete a row of a table kept as a function id -> record.
Put(rows, id, r) == [i \in Ids(rows) \cup {id} |-> IF i = id THEN r ELSE rows[i]]
Del(rows, id) == [i \in Ids(rows) \ {id} |-> rows[i]]

\* appliance.set_status(...): the status text is diagnostics only; the row's
\* status_changed timestamp is what the program reads back.
SetStatus(rows, id) ==
  IF id \in Ids(rows) THEN [rows EXCEPT ![id].status_changed = now] ELSE rows

\* ------------------------------------------------ models.py (not in src/)
\* AppliancePool.appliances
PoolAppliances(apps, p) == {a \in Ids(apps) : apps[a].pool = p}

\* AppliancePool.fulfilled: at least total_count appliances are attached.
Fulfilled(apps, pls, p) == Cardinality(PoolAppliances(apps, p)) >= pls[p].total_count

\* AppliancePool.possible_provisioning_templates: ready templates of the
\* pool's group that exist on a non-busy provider, of the pinned version/date.
PossibleProvisioningTemplates(pls, p) ==
  {t \in Ids(templates) :
     /\ templates[t].ready /\ templates[t].exists
     /\ templates[t].group = pls[p].group
     /\ providers[templates[t].provider].free
     /\ pls[p].version # None => templates[t].version = pls[p].version
     /\ pls[p].date # None => templates[t].date = pls[p].date}

\* Appliance.give_to_pool candidates: ready spare appliances of the group.
ReadySpares(apps, pls, p) ==
  {a \in Ids(apps) :
     /\ apps[a].pool = None /\ apps[a].ready /\ ~apps[a].marked
     /\ apps[a].template \in Ids(templates)
     /\ templates[apps[a].template].group = pls[p].group}

\* Appliance.give_to_pool(pool, minutes) hands the spares in `given` over.
GiveToPool(apps, given, p) ==
  [a \in Ids(apps) |-> IF a \in given THEN [apps[a] EXCEPT !.pool = p] ELSE apps[a]]

\* Appliance.kill(appliance): flag the row, then kill_appliance.delay(id).
MarkForDeletion(apps, a) ==
  IF a \in Ids(apps) THEN [apps EXCEPT ![a].marked = TRUE] ELSE apps

\* ------------------------------------------------------------ provisioning
\* The rows and messages a handler works on while it runs.
Db(apps, pls, d, q, nid) ==
  [apps |-> apps, pls |-> pls, d |-> d, q |-> q, nid |-> nid, ok |-> TRUE]

\* clone_template_to_pool(template_id, pool_id, minutes)
clone_template_to_pool(st, t, p, lease) ==
  [st EXCEPT
     !.apps = Put(st.apps, st.nid, Appliance(t, p)),
     !.pls = [st.pls EXCEPT ![p].version = templates[t].version,
                            ![p].date = templates[t].date],
     !.q = Send(st.q, Sig("clone_template_to_appliance", st.nid, lease, FALSE, NoAux)),
     !.nid = st.nid + 1]

\* The body of request_appliance_pool's loop, run k times; c lists the
\* template taken as tpls[0] in each round.
RECURSIVE ProvisionRounds(_, _, _, _, _)
ProvisionRounds(st, p, lease, k, c) ==
  IF k <= 0 THEN st
  ELSE LET tpls == PossibleProvisioningTemplates(st.pls, p) IN
       IF tpls # {}
       THEN IF Head(c) \in tpls
            THEN ProvisionRounds(clone_template_to_pool(st, Head(c), p, lease),
                                 p, lease, k - 1, Tail(c))
            ELSE [st EXCEPT !.ok = FALSE]
       ELSE ProvisionRounds(
              [st EXCEPT !.d = @ (+) One(DelayedProvisionTask(p, lease, None))],
              p, lease, k - 1, Tail(c))

UnitsToProvision_IgnoringGiven(total, n) == total

\* How many units request_appliance_pool dispatches after n spares were given.
UnitsToProvision(total, n) == IF total - n > 0 THEN total - n ELSE 0

Choices(k) == [1 .. k -> Ids(templates) \cup {None}]

Room(q, k) == QueueSize(q) + k <= MaxQueue
Budget == faults < MaxFaults

\* The record of a task invocation: its arguments, how it ended, the rows it
\* dispatched work for, and the pool and provider of the row it worked on.
Did(task, id, lease, out, ids) ==
  [task |-> task, id |-> id, lease |-> lease, out |-> out, ids |-> ids,
   pool |-> None, prov |-> None]

NoLast == Did("none", None, None, "none", {})

DidOn(task, id, lease, out, app) ==
  [Did(task, id, lease, out, {}) EXCEPT
     !.pool = app.pool, !.prov = templates[app.template].provider]

\* request_appliance_pool(appliance_pool_id, time_minutes)
request_appliance_pool(p, lease) ==
  /\ p \in Ids(pools) /\ pools[p].lease = None
  /\ \E given \in SUBSET ReadySpares(appliances, pools, p) :
       /\ Cardinality(given) <= pools[p].total_count
       /\ \/ Cardinality(given) = pools[p].total_count
          \/ given = ReadySpares(appliances, pools, p)
       /\ LET k == UnitsToProvision(pools[p].total_count, Cardinality(given))
              st0 == Db(GiveToPool(appliances, given, p),
                        [pools EXCEPT ![p].lease = lease], dpts, queue, nextId)
          IN /\ nextId + k <= MaxAppliances + 1
             /\ Room(queue, k + 1)
             /\ \E c \in Choices(k) :
                  LET st == ProvisionRounds(st0, p, lease, k, c) IN
                  /\ st.ok
                  \* one choice sequence per outcome: rounds that clone name
                  \* their template, rounds that defer name none
                  /\ \A i \in 1 .. k : c[i] = None <=> st.nid = nextId
                  /\ appliances' = st.apps
                  /\ pools' = st.pls
                  /\ dpts' = st.d
                  /\ nextId' = st.nid
                  /\ queue' = Send(st.q, Sig("apply_lease_times_after_pool_fulfilled",
                                             p, lease, FALSE, NoAux))
                  /\ last' = Did("request_appliance_pool", p, lease, "returned", given)
  /\ UNCHANGED <<start, rpools, surplus, groups, providers, templates, vms, tvms, nextTpl, now, faults, hist>>

LeaseDispatch_OnlyOne(apps, pls, p) ==
  IF Fulfilled(apps, pls, p)
  THEN {CHOOSE a \in PoolAppliances(apps, p) : TRUE}
  ELSE {}

\* apply_lease_times_after_pool_fulfilled(self, appliance_pool_id, time_minutes)
\* The appliances the watcher dispatches apply_lease_times for.
LeaseDispatch(apps, pls, p) ==
  IF Fulfilled(apps, pls, p) THEN PoolAppliances(apps, p) ELSE {}

RECURSIVE SendLeases(_, _, _)
SendLeases(q, ids, lease) ==
  IF ids = {} THEN q
  ELSE LET a == CHOOSE x \in ids : TRUE IN
       SendLeases(Send(q, Sig("apply_lease_times", a, lease, FALSE, NoAux)),
                  ids \ {a}, lease)

\* budgeted: whether a poll that finds the pool unfulfilled counts against
\* the bound on unproductive steps.
LeaseWatch(budgeted) ==
  \E m \in Pending :
  /\ m.task = "apply_lease_times_after_pool_fulfilled"
  /\ IF m.id \notin Ids(pools)
     THEN /\ queue' = Fail(Take(m), m)
          /\ last' = Did(m.task, m.id, m.lease, "raised", {})
          /\ UNCHANGED faults
     ELSE IF Fulfilled(appliances, pools, m.id)
     THEN /\ Room(Take(m), Cardinality(LeaseDispatch(appliances, pools, m.id)))
          /\ queue' = SendLeases(Take(m), LeaseDispatch(appliances, pools, m.id), m.lease)
          /\ last' = Did(m.task, m.id, m.lease, "returned",
                         LeaseDispatch(appliances, pools, m.id))
          /\ UNCHANGED faults
     ELSE /\ budgeted => Budget
          /\ faults' = IF budgeted THEN faults + 1 ELSE faults
          /\ queue' = Retry(Take(m), m, LeaseWatchRetries)
          /\ last' = Did(m.task, m.id, m.lease,
                         IF Exhausted(m, LeaseWatchRetries) THEN "raised" ELSE "retry", {})
  /\ UNCHANGED <<start, rpools, surplus, groups, providers, templates, appliances, pools, dpts, vms, tvms,
                 nextId, nextTpl, now, hist>>

apply_lease_times_after_pool_fulfilled == LeaseWatch(TRUE)

\* apply_lease_times(appliance_id, time_minutes)
LeasedUntil(leased, minutes) == leased + minutes

apply_lease_times ==
  \E m \in Pending :
  /\ m.task = "apply_lease_times"
  /\ IF m.id \in Ids(appliances)
     THEN /\ appliances' = [appliances EXCEPT
               ![m.id].datetime_leased = now,
               ![m.id].leased_until = LeasedUntil(now, m.lease)]
          /\ last' = Did(m.task, m.id, m.lease, "returned", {m.id})
     ELSE /\ UNCHANGED appliances
          /\ last' = Did(m.task, m.id, m.lease, "raised", {})
  /\ queue' = IF m.id \in Ids(appliances) THEN Succeed(Take(m), m, FALSE)
              ELSE Fail(Take(m), m)
  /\ UNCHANGED <<start, rpools, surplus, groups, providers, templates, pools, dpts, vms, tvms, nextId, nextTpl,
                 now, faults, hist>>

TaskDone_Kept(d, task) == d

\* task.delete()
TaskDone(d, task) == d (-) One(task)

ReplayTemplates_NoAvoid(pls, task) == PossibleProvisioningTemplates(pls, task.pool)

\* process_delayed_provision_tasks(self): the templates a delayed task may
\* be replayed on.
ReplayTemplates(pls, task) ==
  LET tpls == PossibleProvisioningTemplates(pls, task.pool)
      filtered_tpls == {t \in tpls : templates[t].provider # task.provider_to_avoid}
  IN IF task.provider_to_avoid # None /\ filtered_tpls # {} THEN filtered_tpls ELSE tpls

\* One round of the loop per delayed task of tasks; c lists random.choice.
RECURSIVE ReplayRounds(_, _, _)
ReplayRounds(st, tasks, c) ==
  IF tasks = <<>> THEN st
  ELSE LET task == Head(tasks) IN
       IF task.pool \notin Ids(st.pls) THEN st      \* the loop raises
       ELSE LET tpls == ReplayTemplates(st.pls, task) IN
            IF tpls # {}
            THEN IF Head(c) \in tpls
                 THEN ReplayRounds(
                        [clone_template_to_pool(st, Head(c), task.pool, task.lease_time)
                           EXCEPT !.d = TaskDone(@, task)],
                        Tail(tasks), Tail(c))
                 ELSE [st EXCEPT !.ok = FALSE]
            ELSE IF Head(c) = None THEN ReplayRounds(st, Tail(tasks), Tail(c))
                 ELSE [st EXCEPT !.ok = FALSE]

RECURSIVE SeqToBag(_)
SeqToBag(sq) == IF sq = <<>> THEN EmptyBag ELSE One(Head(sq)) (+) SeqToBag(Tail(sq))

\* DelayedProvisionTask.objects.all(), in whatever order the database yields.
Listings(d) ==
  {sq \in [1 .. BagCardinality(d) -> BagToSet(d)] : SeqToBag(sq) = d}

process_delayed_provision_tasks_pass(q) ==
  /\ \E tasks \in Listings(dpts) : \E c \in Choices(Len(tasks)) :
       LET st == ReplayRounds(Db(appliances, pools, dpts, q, nextId), tasks, c) IN
       /\ st.ok
       /\ st.nid <= MaxAppliances + 1
       /\ Room(st.q, 0)
       /\ appliances' = st.apps
       /\ pools' = st.pls
       /\ dpts' = st.d
       /\ queue' = st.q
       /\ nextId' = st.nid
       /\ last' = Did("process_delayed_provision_tasks", None, None, "returned",
                      Ids(st.apps) \ Ids(appliances))
  /\ UNCHANGED <<start, rpools, surplus, groups, providers, templates, vms, tvms, nextTpl, now, faults, hist>>

process_delayed_provision_tasks ==
  /\ dpts # EmptyBag
  /\ process_delayed_provision_tasks_pass(queue)

\* ---------------------------------------------------- provider (external)
\* A VM is "absent", "stopped", "starting", "running", "stopping",
\* "suspending" or "suspended"; a query about an absent VM raises.
Exists(v) == v # "absent"

\* The provider completes a power transition.
VmSettle(a) ==
  /\ vms[a] \in {"starting", "stopping", "suspending"}
  /\ vms' = [vms EXCEPT ![a] = CASE @ = "starting" -> "running"
                                  [] @ = "stopping" -> "stopped"
                                  [] OTHER -> "suspended"]
  /\ last' = NoLast
  /\ UNCHANGED <<start, rpools, surplus, groups, providers, templates, appliances, pools, dpts, tvms, queue,
                 nextId, nextTpl, now, faults, hist>>

\* The provider's load changes (Provider.free is computed from it).
ProviderLoad(p) ==
  /\ providers' = [providers EXCEPT ![p].free = ~@]
  /\ last' = NoLast
  /\ UNCHANGED <<start, rpools, surplus, groups, templates, appliances, pools, dpts, vms, tvms, queue,
                 nextId, nextTpl, now, faults, hist>>

Tick ==
  /\ now < MaxTime
  /\ now' = now + 1
  /\ last' = NoLast
  /\ UNCHANGED <<start, rpools, surplus, groups, providers, templates, appliances, pools, dpts, vms, tvms, queue,
                 nextId, nextTpl, faults, hist>>

\* ------------------------------------------------- appliance provisioning
\* clone_template_to_appliance(appliance_id, lease_time_minutes=None)
CloneChain(a) ==
  << Sig("clone_template_to_appliance__clone_template", a, None, FALSE, NoAux),
     Sig("clone_template_to_appliance__wait_present", a, None, FALSE, NoAux),
     Sig("appliance_power_on", a, None, FALSE, NoAux) >>

CloneErrback(app, a, lease) ==
  IF app.pool # None
  THEN Sig("kill_appliance", a, lease, TRUE, NoAux)
  ELSE Sig("kill_appliance", a, DefaultMinutes, FALSE, NoAux)

clone_template_to_appliance ==
  \E m \in Pending :
  /\ m.task = "clone_template_to_appliance"
  /\ IF m.id \in Ids(appliances)
     THEN /\ appliances' = SetStatus(appliances, m.id)
          /\ queue' = StartChain(Take(m),
                        << [CloneChain(m.id)[1] EXCEPT !.lease = m.lease] >>
                          \o Tail(CloneChain(m.id)),
                        << CloneErrback(appliances[m.id], m.id, m.lease) >>)
          /\ last' = Did(m.task, m.id, m.lease, "returned", {})
     ELSE /\ UNCHANGED appliances
          /\ queue' = Fail(Take(m), m)
          /\ last' = Did(m.task, m.id, m.lease, "raised", {})
  /\ UNCHANGED <<start, rpools, surplus, groups, providers, templates, pools, dpts, vms, tvms, nextId, nextTpl,
                 now, faults, hist>>

\* clone_template_to_appliance__clone_template(self, appliance_id, lease)
DefersOnOverLimit_Always(app) == TRUE

\* "except OSOverLimit": the request is put aside only for a pool's appliance.
DefersOnOverLimit(app) == app.pool # None

\* "except Exception": the other errors that put the request aside.
DefersOnError(kind, app) ==
  kind = "quota" \/ (kind = "limit" /\ app.pool # None)

DeferredTask_NoAvoid(app, lease) == DelayedProvisionTask(app.pool, lease, None)

\* The DelayedProvisionTask saved when the request is put aside.
DeferredTask(app, lease) ==
  DelayedProvisionTask(app.pool, lease, templates[app.template].provider)

\* new_task.save(): a task of a pool is stored; for a task without a pool the
\* table either takes the row or the save raises after the appliance's row is
\* gone.
SaveOutcomes(app) == IF app.pool = None THEN BOOLEAN ELSE {TRUE}

\* What the step enqueues when a generic error is not put aside.
CloneRetry(q, m) == RetryDroppingArgs(q, m, CloneRetries, FALSE)

CloneErrors == {"overlimit", "quota", "limit", "error"}

DeployUnlessThere_Always(v) == "stopped"

\* if not does_vm_exist(appliance.name): deploy_template(..., power_on=False)
DeployUnlessThere(v) == IF Exists(v) THEN v ELSE "stopped"

clone_template_to_appliance__clone_template ==
  \E m \in Pending :
  /\ m.task = "clone_template_to_appliance__clone_template"
  /\ IF ~m.argsok
     THEN \* the retried request lacks lease_time_minutes: TypeError
          /\ queue' = Fail(Take(m), m)
          /\ last' = Did(m.task, m.id, m.lease, "raised", {})
          /\ UNCHANGED <<appliances, dpts, vms, faults>>
     ELSE IF m.id \notin Ids(appliances)
     THEN /\ queue' = Succeed(Take(m), m, TRUE)
          /\ last' = Did(m.task, m.id, m.lease, "gone", {})
          /\ UNCHANGED <<appliances, dpts, vms, faults>>
     ELSE
       \/ \* the VM is there already, or deploy_template succeeds
          /\ vms' = [vms EXCEPT ![m.id] = DeployUnlessThere(@)]
          /\ appliances' = SetStatus(appliances, m.id)
          /\ queue' = Succeed(Take(m), m, FALSE)
          /\ last' = Did(m.task, m.id, m.lease, "returned", {})
          /\ UNCHANGED <<dpts, faults>>
       \/ \* does_vm_exist or deploy_template raises
          /\ Budget
          /\ faults' = faults + 1
          /\ \E kind \in CloneErrors : \E left \in {vms[m.id], "stopped", "absent"} :
               LET app == appliances[m.id]
                   defer == IF kind = "overlimit" THEN DefersOnOverLimit(app)
                            ELSE DefersOnError(kind, app)
               IN \* OSOverLimit comes from deploy_template; a failed deploy
                  \* may leave a VM behind; only the put-aside path deletes it
                  /\ kind = "overlimit" => ~Exists(vms[m.id])
                  /\ left # vms[m.id] =>
                       IF left = "absent" THEN defer ELSE ~Exists(vms[m.id])
                  /\ vms' = [vms EXCEPT ![m.id] = left]
                  /\ IF defer
                     THEN \E saved \in SaveOutcomes(app) :
                          /\ appliances' = Del(appliances, m.id)
                          /\ dpts' = IF saved THEN dpts (+) One(DeferredTask(app, m.lease))
                                     ELSE dpts
                          /\ queue' = IF saved THEN Succeed(Take(m), m, TRUE)
                                      ELSE Fail(Take(m), m)
                          /\ last' = DidOn(m.task, m.id, m.lease,
                                           IF saved THEN kind ELSE "unsaved", app)
                     ELSE /\ appliances' = SetStatus(appliances, m.id)
                          /\ dpts' = dpts
                          /\ queue' = IF kind = "overlimit" THEN Fail(Take(m), m)
                                      ELSE CloneRetry(Take(m), m)
                          /\ last' = DidOn(m.task, m.id, m.lease, kind, app)
  /\ UNCHANGED <<start, rpools, surplus, groups, providers, templates, pools, tvms, nextId, nextTpl, now, hist>>

\* clone_template_to_appliance__wait_present(self, appliance_id)
clone_template_to_appliance__wait_present ==
  \E m \in Pending :
  /\ m.task = "clone_template_to_appliance__wait_present"
  /\ IF m.id \notin Ids(appliances)
     THEN /\ queue' = Succeed(Take(m), m, TRUE)
          /\ last' = Did(m.task, m.id, m.lease, "gone", {})
          /\ UNCHANGED <<appliances, faults>>
     ELSE
       \/ /\ Exists(vms[m.id])
          /\ appliances' = SetStatus(appliances, m.id)
          /\ queue' = Succeed(Take(m), m, FALSE)
          /\ last' = Did(m.task, m.id, m.lease, "returned", {})
          /\ UNCHANGED faults
       \/ \* not visible yet: self.retry inside the try block
          /\ ~Exists(vms[m.id]) /\ Budget /\ Room(Take(m), 2)
          /\ faults' = faults + 1
          /\ appliances' = SetStatus(appliances, m.id)
          /\ queue' = RetryTwice(Take(m), m, WaitPresentRetries)
          /\ last' = Did(m.task, m.id, m.lease, "retry", {})
       \/ \* does_vm_exist raises
          /\ Budget
          /\ faults' = faults + 1
          /\ appliances' = SetStatus(appliances, m.id)
          /\ queue' = Retry(Take(m), m, WaitPresentRetries)
          /\ last' = Did(m.task, m.id, m.lease, "error", {})
  /\ UNCHANGED <<start, rpools, surplus, groups, providers, templates, pools, dpts, vms, tvms, nextId, nextTpl,
                 now, hist>>

\* appliance_power_on(self, appliance_id)
appliance_power_on ==
  \E m \in Pending :
  /\ m.task = "appliance_power_on" /\ ~m.flag
  /\ IF m.id \notin Ids(appliances)
     THEN /\ queue' = Succeed(Take(m), m, FALSE)
          /\ last' = Did(m.task, m.id, m.lease, "gone", {})
          /\ UNCHANGED <<appliances, vms, faults>>
     ELSE
       \/ /\ vms[m.id] = "running"
          /\ Room(Take(m), IF m.cbs = << >> THEN 2 ELSE 3)
          /\ appliances' = [SetStatus(appliances, m.id) EXCEPT ![m.id].power = "on"]
          /\ queue' = Succeed(
                        Send(Send(Take(m), Sig("retrieve_appliance_ip", m.id, None, FALSE, NoAux)),
                             Sig("wait_appliance_ready", m.id, None, FALSE, NoAux)),
                        m, FALSE)
          /\ last' = Did(m.task, m.id, m.lease, "returned", {})
          /\ UNCHANGED <<vms, faults>>
       \/ /\ vms[m.id] \in {"starting", "stopping", "suspending"}
          /\ Budget /\ Room(Take(m), 2)
          /\ faults' = faults + 1
          /\ appliances' = SetStatus(appliances, m.id)
          /\ queue' = RetryTwice(Take(m), m, PowerOnRetries)
          /\ last' = Did(m.task, m.id, m.lease, "retry", {})
          /\ UNCHANGED vms
       \/ /\ vms[m.id] \in {"stopped", "suspended"}
          /\ Room(Take(m), 2)
          /\ vms' = [vms EXCEPT ![m.id] = "starting"]
          /\ appliances' = SetStatus(appliances, m.id)
          /\ queue' = RetryTwice(Take(m), m, PowerOnRetries)
          /\ last' = Did(m.task, m.id, m.lease, "command", {})
          /\ UNCHANGED faults
       \/ \* a provider call raises (always so for a VM that is absent)
          /\ Budget
          /\ faults' = faults + 1
          /\ queue' = Retry(Take(m), m, PowerOnRetries)
          /\ last' = Did(m.task, m.id, m.lease, "error", {})
          /\ UNCHANGED <<appliances, vms>>
  /\ UNCHANGED <<start, rpools, surplus, groups, providers, templates, pools, dpts, tvms, nextId, nextTpl, now, hist>>

\* appliance_power_on when other workers run between its statements: the
\* invocation found the VM running, sent retrieve_appliance_ip and set the
\* status; the flag marks the request as being at that point.
appliance_power_on_running ==
  \E m \in Pending :
  /\ m.task = "appliance_power_on" /\ ~m.flag
  /\ m.id \in Ids(appliances)
  /\ vms[m.id] = "running"
  /\ Room(Take(m), IF m.cbs = << >> THEN 2 ELSE 3)
  /\ appliances' = SetStatus(appliances, m.id)
  /\ queue' = Send(Take(m), Sig("retrieve_appliance_ip", m.id, None, FALSE, NoAux))
                (+) One([m EXCEPT !.flag = TRUE])
  /\ last' = Did(m.task, m.id, m.lease, "running", {})
  /\ UNCHANGED <<start, rpools, surplus, groups, providers, templates, pools, dpts, vms, tvms, nextId,
                 nextTpl, now, faults, hist>>

\* The rest of that invocation: power_state = ON is saved and
\* wait_appliance_ready is sent; if the row is gone, Appliance.objects.get
\* raises inside the try block and the request is retried.
appliance_power_on_commit ==
  \E m \in Pending :
  /\ m.task = "appliance_power_on" /\ m.flag
  /\ IF m.id \in Ids(appliances)
     THEN /\ appliances' = [appliances EXCEPT ![m.id].power = "on"]
          /\ queue' = Succeed(Send(Take(m),
                                   Sig("wait_appliance_ready", m.id, None, FALSE, NoAux)),
                              [m EXCEPT !.flag = FALSE], FALSE)
          /\ last' = Did(m.task, m.id, m.lease, "returned", {})
     ELSE /\ UNCHANGED appliances
          /\ queue' = Retry(Take(m), [m EXCEPT !.flag = FALSE], PowerOnRetries)
          /\ last' = Did(m.task, m.id, m.lease, "error", {})
  /\ UNCHANGED <<start, rpools, surplus, groups, providers, templates, pools, dpts, vms, tvms, nextId,
                 nextTpl, now, faults, hist>>

\* retrieve_appliance_ip(self, appliance_id)
retrieve_appliance_ip ==
  \E m \in Pending :
  /\ m.task = "retrieve_appliance_ip"
  /\ IF m.id \notin Ids(appliances)
     THEN /\ queue' = Succeed(Take(m), m, FALSE)
          /\ last' = Did(m.task, m.id, m.lease, "gone", {})
          /\ UNCHANGED <<appliances, faults>>
     ELSE
       \/ /\ vms[m.id] = "running"
          /\ appliances' = [SetStatus(appliances, m.id) EXCEPT ![m.id].ip = TRUE]
          /\ queue' = Succeed(Take(m), m, FALSE)
          /\ last' = Did(m.task, m.id, m.lease, "returned", {})
          /\ UNCHANGED faults
       \/ \* current_ip_address gives None
          /\ Budget
          /\ faults' = faults + 1
          /\ appliances' = SetStatus(appliances, m.id)
          /\ queue' = Retry(Take(m), m, RetrieveIpRetries)
          /\ last' = Did(m.task, m.id, m.lease, "retry", {})
       \/ \* current_ip_address raises
          /\ Budget
          /\ faults' = faults + 1
          /\ appliances' = SetStatus(appliances, m.id)
          /\ queue' = Fail(Take(m), m)
          /\ last' = Did(m.task, m.id, m.lease, "raised", {})
  /\ UNCHANGED <<start, rpools, surplus, groups, providers, templates, pools, dpts, vms, tvms, nextId, nextTpl,
                 now, hist>>

NotYetUp_IgnoringIp(app) == app.power = "unknown"

NotYetUp_IgnoringPower(app) == ~app.ip

\* appliance.power_state == "unknown" or appliance.ip_address is None
NotYetUp(app) == app.power = "unknown" \/ ~app.ip

\* wait_appliance_ready(self, appliance_id)
wait_appliance_ready ==
  \E m \in Pending :
  /\ m.task = "wait_appliance_ready"
  /\ IF m.id \notin Ids(appliances)
     THEN /\ queue' = Succeed(Take(m), m, FALSE)
          /\ last' = Did(m.task, m.id, m.lease, "gone", {})
          /\ UNCHANGED <<appliances, faults>>
     ELSE IF NotYetUp(appliances[m.id])
     THEN /\ Budget
          /\ faults' = faults + 1
          /\ queue' = Retry(Take(m), m, WaitReadyRetries)
          /\ last' = Did(m.task, m.id, m.lease, "retry", {})
          /\ UNCHANGED appliances
     ELSE
       \/ \* is_web_ui_running() is true
          /\ vms[m.id] = "running"
          /\ appliances' = [SetStatus(appliances, m.id) EXCEPT ![m.id].ready = TRUE]
          /\ queue' = Succeed(Take(m), m, FALSE)
          /\ last' = Did(m.task, m.id, m.lease, "returned", {})
          /\ UNCHANGED faults
       \/ \* is_web_ui_running() is false
          /\ Budget
          /\ faults' = faults + 1
          /\ appliances' = [SetStatus(appliances, m.id) EXCEPT ![m.id].ready = FALSE]
          /\ queue' = Retry(Take(m), m, WaitReadyRetries)
          /\ last' = Did(m.task, m.id, m.lease, "retry", {})
  /\ UNCHANGED <<start, rpools, surplus, groups, providers, templates, pools, dpts, vms, tvms, nextId, nextTpl,
                 now, hist>>

\* --------------------------------------------------------------- reclaiming
\* kill_unused_appliances(self): the appliances the watchdog kills.
ExpiredLease(app) == app.leased_until # NoTime /\ app.leased_until <= now

SweepTargets(apps) ==
  {a \in Ids(apps) : ~apps[a].marked /\ apps[a].ready /\ ExpiredLease(apps[a])}

RECURSIVE SendKills(_, _)
SendKills(q, ids) ==
  IF ids = {} THEN q
  ELSE LET a == CHOOSE x \in ids : TRUE IN
       SendKills(Send(q, Sig("kill_appliance", a, DefaultMinutes, FALSE, NoAux)),
                 ids \ {a})

kill_unused_appliances_pass(q) ==
  /\ Room(q, Cardinality(SweepTargets(appliances)))
  /\ queue' = SendKills(q, SweepTargets(appliances))
  /\ last' = Did("kill_unused_appliances", None, None, "returned",
                 SweepTargets(appliances))
  /\ UNCHANGED <<start, rpools, surplus, groups, providers, templates, appliances, pools, dpts, vms, tvms,
                 nextId, nextTpl, now, faults, hist>>

kill_unused_appliances == kill_unused_appliances_pass(queue)

\* kill_appliance(appliance_id, replace_in_pool=False, minutes=60)
\* Whether building the workflow reads the appliance row.
KillReadsAppliance(m) == m.flag

KillWorkflow(m, apps) ==
  << Sig("appliance_power_off", m.id, None, FALSE, NoAux),
     Sig("kill_appliance_delete", m.id, None, FALSE, NoAux) >>
  \o (IF m.flag /\ apps[m.id].pool # None
      THEN << Sig("replace_clone_to_pool", apps[m.id].pool, m.lease, FALSE,
                  << templates[apps[m.id].template].version,
                     templates[apps[m.id].template].date,
                     apps[m.id].template >>) >>
      ELSE << >>)

kill_appliance ==
  \E m \in Pending :
  /\ m.task = "kill_appliance"
  /\ IF KillReadsAppliance(m) /\ m.id \notin Ids(appliances)
     THEN \* Appliance.objects.get raises ObjectDoesNotExist
          /\ queue' = Fail(Take(m), m)
          /\ last' = Did(m.task, m.id, m.lease, "raised", {})
     ELSE /\ queue' = StartChain(Take(m), KillWorkflow(m, appliances), << >>)
          /\ last' = Did(m.task, m.id, m.lease, "returned", {})
  /\ UNCHANGED <<start, rpools, surplus, groups, providers, templates, appliances, pools, dpts, vms, tvms,
                 nextId, nextTpl, now, faults, hist>>

\* appliance_power_off(self, appliance_id)
appliance_power_off ==
  \E m \in Pending :
  /\ m.task = "appliance_power_off"
  /\ IF m.id \notin Ids(appliances)
     THEN /\ queue' = Succeed(Take(m), m, FALSE)
          /\ last' = Did(m.task, m.id, m.lease, "gone", {})
          /\ UNCHANGED <<appliances, vms, faults>>
     ELSE
       \/ /\ vms[m.id] = "stopped"
          /\ appliances' = [SetStatus(appliances, m.id) EXCEPT
                              ![m.id].power = "off", ![m.id].ready = FALSE]
          /\ queue' = Succeed(Take(m), m, FALSE)
          /\ last' = Did(m.task, m.id, m.lease, "returned", {})
          /\ UNCHANGED <<vms, faults>>
       \/ /\ vms[m.id] \in {"suspended", "running"}
          /\ Room(Take(m), 2)
          /\ vms' = [vms EXCEPT ![m.id] = IF @ = "suspended" THEN "starting" ELSE "stopping"]
          /\ appliances' = SetStatus(appliances, m.id)
          /\ queue' = RetryTwice(Take(m), m, PowerOffRetries)
          /\ last' = Did(m.task, m.id, m.lease, "command", {})
          /\ UNCHANGED faults
       \/ /\ vms[m.id] \in {"starting", "stopping", "suspending"}
          /\ Budget /\ Room(Take(m), 2)
          /\ faults' = faults + 1
          /\ appliances' = SetStatus(appliances, m.id)
          /\ queue' = RetryTwice(Take(m), m, PowerOffRetries)
          /\ last' = Did(m.task, m.id, m.lease, "retry", {})
          /\ UNCHANGED vms
       \/ \* a provider call raises (always so for a VM that is absent)
          /\ Budget
          /\ faults' = faults + 1
          /\ queue' = Retry(Take(m), m, PowerOffRetries)
          /\ last' = Did(m.task, m.id, m.lease, "error", {})
          /\ UNCHANGED <<appliances, vms>>
  /\ UNCHANGED <<start, rpools, surplus, groups, providers, templates, pools, dpts, tvms, nextId, nextTpl, now, hist>>

appliance_suspend ==
  \E m \in Pending :
  /\ m.task = "appliance_suspend"
  /\ IF m.id \notin Ids(appliances)
     THEN /\ queue' = Succeed(Take(m), m, FALSE)
          /\ last' = Did(m.task, m.id, m.lease, "gone", {})
          /\ UNCHANGED <<appliances, vms, faults>>
     ELSE
       \/ /\ vms[m.id] = "suspended"
          /\ appliances' = [SetStatus(appliances, m.id) EXCEPT
                              ![m.id].power = "suspended", ![m.id].ready = FALSE]
          /\ queue' = Succeed(Take(m), m, FALSE)
          /\ last' = Did(m.task, m.id, m.lease, "returned", {})
          /\ UNCHANGED <<vms, faults>>
       \/ \* suspend_vm: a running VM suspends, a stopped one stays as it is
          /\ vms[m.id] \in {"stopped", "running"}
          /\ Room(Take(m), 2)
          /\ vms' = [vms EXCEPT ![m.id] = IF @ = "running" THEN "suspending" ELSE @]
          /\ appliances' = SetStatus(appliances, m.id)
          /\ queue' = RetryTwice(Take(m), m, SuspendRetries)
          /\ last' = Did(m.task, m.id, m.lease, "command", {})
          /\ UNCHANGED faults
       \/ /\ vms[m.id] \in {"starting", "stopping", "suspending"}
          /\ Budget /\ Room(Take(m), 2)
          /\ faults' = faults + 1
          /\ appliances' = SetStatus(appliances, m.id)
          /\ queue' = RetryTwice(Take(m), m, SuspendRetries)
          /\ last' = Did(m.task, m.id, m.lease, "retry", {})
          /\ UNCHANGED vms
       \/ \* a provider call raises (always so for a VM that is absent)
          /\ Budget
          /\ faults' = faults + 1
          /\ queue' = Retry(Take(m), m, SuspendRetries)
          /\ last' = Did(m.task, m.id, m.lease, "error", {})
          /\ UNCHANGED <<appliances, vms>>
  /\ UNCHANGED <<start, rpools, surplus, groups, providers, templates, pools, dpts, tvms, nextId, nextTpl, now, hist>>

\* kill_appliance_delete(self, appliance_id)
kill_appliance_delete ==
  \E m \in Pending :
  /\ m.task = "kill_appliance_delete"
  /\ IF m.id \notin Ids(appliances)
     THEN /\ queue' = Succeed(Take(m), m, FALSE)
          /\ last' = Did(m.task, m.id, m.lease, "gone", {})
          /\ UNCHANGED <<appliances, vms, faults>>
     ELSE
       \/ /\ vms' = [vms EXCEPT ![m.id] = "absent"]
          /\ appliances' = Del(appliances, m.id)
          /\ queue' = Succeed(Take(m), m, FALSE)
          /\ last' = Did(m.task, m.id, m.lease, "returned", {})
          /\ UNCHANGED faults
       \/ \* does_vm_exist or delete_vm raises
          /\ Budget
          /\ faults' = faults + 1
          /\ appliances' = SetStatus(appliances, m.id)
          /\ queue' = Retry(Take(m), m, KillDeleteRetries)
          /\ last' = Did(m.task, m.id, m.lease, "error", {})
          /\ UNCHANGED vms
  /\ UNCHANGED <<start, rpools, surplus, groups, providers, templates, pools, dpts, tvms, nextId, nextTpl, now, hist>>

\* replace_clone_to_pool(version, date, appliance_pool_id, time_minutes,
\*                       exclude_template_id)
ReplacementTemplates(pls, p, aux) ==
  LET same == {t \in Ids(templates) :
                 /\ templates[t].ready /\ templates[t].exists
                 /\ templates[t].group = pls[p].group
                 /\ templates[t].version = aux[1] /\ templates[t].date = aux[2]}
  IN IF same \ {aux[3]} # {} THEN same \ {aux[3]} ELSE {aux[3]}

replace_clone_to_pool ==
  \E m \in Pending :
  /\ m.task = "replace_clone_to_pool"
  /\ IF m.id \notin Ids(pools) \/ m.aux[3] \notin Ids(templates)
     THEN /\ queue' = Fail(Take(m), m)
          /\ last' = Did(m.task, m.id, m.lease, "raised", {})
          /\ UNCHANGED <<appliances, pools, nextId>>
     ELSE /\ nextId <= MaxAppliances
          /\ \E t \in ReplacementTemplates(pools, m.id, m.aux) :
               LET st == clone_template_to_pool(
                           Db(appliances, pools, dpts, Take(m), nextId), t, m.id, m.lease)
               IN /\ appliances' = st.apps
                  /\ pools' = st.pls
                  /\ nextId' = st.nid
                  /\ queue' = Succeed(st.q, m, FALSE)
                  /\ last' = Did(m.task, m.id, m.lease, "returned", {nextId})
  /\ UNCHANGED <<start, rpools, surplus, groups, providers, templates, dpts, vms, tvms, nextTpl, now, faults, hist>>

\* ---------------------------------------------------- template preparation
\* Template.is_created (models.py): the template's VM is on the provider.
IsCreated(tv, t) == tv[t] # "absent"

\* Template.objects.get(provider=..., template_group=..., original_name=...)
TemplatesOf(tpls, prov, grp, orig) ==
  {t \in Ids(tpls) : /\ tpls[t].provider = prov /\ tpls[t].group = grp
                     /\ tpls[t].original = orig}

CreateSig(prov, grp, orig) ==
  Sig("create_appliance_template", prov, None, FALSE, <<grp, orig, 0>>)

RECURSIVE SendCreates(_, _, _, _)
SendCreates(q, provs, grp, orig) ==
  IF provs = {} THEN q
  ELSE LET p == CHOOSE x \in provs : TRUE IN
       SendCreates(Send(q, CreateSig(p, grp, orig)), provs \ {p}, grp, orig)

Eligible_NotWorking(prov) == prov.sprout /\ prov.use_for_sprout

\* if not provider.working: continue; if "sprout" not in provider_data:
\* continue; if not provider_data.get("use_for_sprout", False): continue
Eligible(prov) == prov.working /\ prov.sprout /\ prov.use_for_sprout

\* poke_trackerbot(self): usable lists the providers the tracker names for
\* the source template.
poke_trackerbot_pass(q) ==
  \E grp \in Groups : \E orig \in Originals : \E usable \in SUBSET Providers :
    LET new == {p \in usable : /\ Eligible(providers[p])
                               /\ TemplatesOf(templates, p, grp, orig) = {}
                               /\ providers[p].image}
    IN /\ Room(q, Cardinality(new))
       /\ queue' = SendCreates(q, new, grp, orig)
       /\ last' = Did("poke_trackerbot", None, None, "returned", new)
       /\ UNCHANGED <<start, rpools, surplus, groups, providers, templates, appliances, pools, dpts, vms,
                      tvms, nextId, nextTpl, now, faults, hist>>

poke_trackerbot == poke_trackerbot_pass(queue)

TemplateChain_FinishBeforePoweroff(t) ==
  << Sig("prepare_template_deploy", t, None, FALSE, NoAux),
     Sig("prepare_template_configure", t, None, FALSE, NoAux),
     Sig("prepare_template_network_setup", t, None, FALSE, NoAux),
     Sig("prepare_template_finish", t, None, FALSE, NoAux),
     Sig("prepare_template_poweroff", t, None, FALSE, NoAux) >>

\* The workflow create_appliance_template builds for template t.
TemplateChain(t) ==
  << Sig("prepare_template_deploy", t, None, FALSE, NoAux),
     Sig("prepare_template_configure", t, None, FALSE, NoAux),
     Sig("prepare_template_network_setup", t, None, FALSE, NoAux),
     Sig("prepare_template_poweroff", t, None, FALSE, NoAux),
     Sig("prepare_template_finish", t, None, FALSE, NoAux) >>

TemplateErrback(t) ==
  << Sig("prepare_template_delete_on_error", t, None, FALSE, NoAux) >>

\* create_appliance_template(provider_id, group_id, template_name), up to the
\* existence test.  The test and the insert are two statements of one
\* transaction; nothing makes another worker's transaction wait between them,
\* so the invocation that found no row stays in flight (flag) until it saves.
create_appliance_template ==
  \E m \in Pending :
  /\ m.task = "create_appliance_template" /\ ~m.flag
  /\ IF TemplatesOf(templates, m.id, m.aux[1], m.aux[2]) # {}
     THEN /\ queue' = Succeed(Take(m), m, FALSE)
          /\ last' = Did(m.task, m.id, None, "exists", {})
     ELSE /\ queue' = Take(m) (+) One([m EXCEPT !.flag = TRUE])
          /\ last' = Did(m.task, m.id, None, "missing", {})
  /\ UNCHANGED <<start, rpools, surplus, groups, providers, templates, appliances, pools, dpts, vms, tvms,
                 nextId, nextTpl, now, faults, hist>>

\* create_appliance_template, from template.save() to workflow().
create_appliance_template_save ==
  \E m \in Pending :
  /\ m.task = "create_appliance_template" /\ m.flag
  /\ nextTpl <= MaxTemplates
  /\ templates' = Put(templates, nextTpl, Template(m.id, m.aux[1], 1, 1, m.aux[2]))
  /\ hist' = Put(hist, nextTpl, << >>)
  /\ nextTpl' = nextTpl + 1
  /\ queue' = StartChain(Take(m), TemplateChain(nextTpl), TemplateErrback(nextTpl))
  /\ last' = Did(m.task, m.id, None, "returned", {nextTpl})
  /\ UNCHANGED <<start, rpools, surplus, groups, providers, appliances, pools, dpts, vms, tvms, nextId,
                 now, faults>>

\* How an invocation of a prepare_template_* step ends.
StepReturns(m, tpls, tv) ==
  /\ templates' = SetStatus(tpls, m.id)
  /\ tvms' = tv
  /\ queue' = Succeed(Take(m), m, FALSE)
  /\ hist' = [hist EXCEPT ![m.id] = Append(@, m.task)]
  /\ last' = Did(m.task, m.id, None, "returned", {})

StepRetries(m, tv) ==
  /\ templates' = SetStatus(templates, m.id)
  /\ tvms' = tv
  /\ queue' = Retry(Take(m), m, TemplateRetries)
  /\ hist' = hist
  /\ last' = Did(m.task, m.id, None,
                 IF Exhausted(m, TemplateRetries) THEN "raised" ELSE "retry", {})

\* Template.objects.get(id=template_id) raises ObjectDoesNotExist.
StepRaises(m) ==
  /\ queue' = Fail(Take(m), m)
  /\ last' = Did(m.task, m.id, None, "raised", {})
  /\ UNCHANGED <<templates, tvms, hist>>

\* prepare_template_deploy(self, template_id)
prepare_template_deploy ==
  \E m \in Pending :
  /\ m.task = "prepare_template_deploy"
  /\ IF m.id \notin Ids(templates) THEN StepRaises(m)
     ELSE IF IsCreated(tvms, m.id)
     THEN \* return True, before any set_status
          /\ queue' = Succeed(Take(m), m, FALSE)
          /\ hist' = [hist EXCEPT ![m.id] = Append(@, m.task)]
          /\ last' = Did(m.task, m.id, None, "returned", {})
          /\ UNCHANGED <<templates, tvms>>
     ELSE \/ StepReturns(m, templates, [tvms EXCEPT ![m.id] = "running"])
          \/ \* deploy_template raises, with or without a VM left behind
             \E left \in {"absent", "stopped"} :
               StepRetries(m, [tvms EXCEPT ![m.id] = left])
  /\ UNCHANGED <<start, rpools, surplus, groups, providers, appliances, pools, dpts, vms, nextId, nextTpl,
                 now, faults>>

\* prepare_template_configure(self, template_id)
prepare_template_configure ==
  \E m \in Pending :
  /\ m.task = "prepare_template_configure"
  /\ IF m.id \notin Ids(templates) THEN StepRaises(m)
     ELSE \/ /\ tvms[m.id] = "running"
             /\ StepReturns(m, templates, tvms)
          \/ StepRetries(m, tvms)
  /\ UNCHANGED <<start, rpools, surplus, groups, providers, appliances, pools, dpts, vms, nextId, nextTpl,
                 now, faults>>

\* prepare_template_network_setup(self, template_id)
prepare_template_network_setup ==
  \E m \in Pending :
  /\ m.task = "prepare_template_network_setup"
  /\ IF m.id \notin Ids(templates) THEN StepRaises(m)
     ELSE \/ /\ tvms[m.id] = "running"
             /\ StepReturns(m, templates, tvms)
          \/ StepRetries(m, tvms)
  /\ UNCHANGED <<start, rpools, surplus, groups, providers, appliances, pools, dpts, vms, nextId, nextTpl,
                 now, faults>>

\* prepare_template_poweroff(self, template_id)
prepare_template_poweroff ==
  \E m \in Pending :
  /\ m.task = "prepare_template_poweroff" /\ ~m.flag
  /\ IF m.id \notin Ids(templates) THEN StepRaises(m)
     ELSE \/ /\ IsCreated(tvms, m.id)
             /\ StepReturns(m, templates, [tvms EXCEPT ![m.id] = "stopped"])
          \/ StepRetries(m, tvms)
  /\ UNCHANGED <<start, rpools, surplus, groups, providers, appliances, pools, dpts, vms, nextId, nextTpl,
                 now, faults>>

\* prepare_template_poweroff while the provider takes its time: stop_vm was
\* accepted and the invocation is inside wait_vm_stopped; the flag marks the
\* request as being at that point, its worker held by it.
prepare_template_poweroff_stop ==
  \E m \in Pending :
  /\ m.task = "prepare_template_poweroff" /\ ~m.flag
  /\ m.id \in Ids(templates)
  /\ tvms[m.id] = "running"
  /\ templates' = SetStatus(templates, m.id)
  /\ tvms' = [tvms EXCEPT ![m.id] = "stopping"]
  /\ queue' = Take(m) (+) One([m EXCEPT !.flag = TRUE])
  /\ last' = Did(m.task, m.id, None, "waiting", {})
  /\ UNCHANGED <<start, rpools, surplus, groups, providers, appliances, pools, dpts, vms, nextId, nextTpl,
                 now, faults, hist>>

\* The rest of that invocation: wait_vm_stopped returns once the VM is
\* stopped, or gives up and raises.
prepare_template_poweroff_wait ==
  \E m \in Pending :
  /\ m.task = "prepare_template_poweroff" /\ m.flag
  /\ \/ /\ tvms[m.id] = "stopped"
        /\ templates' = SetStatus(templates, m.id)
        /\ queue' = Succeed(Take(m), m, FALSE)
        /\ hist' = [hist EXCEPT ![m.id] = Append(@, m.task)]
        /\ last' = Did(m.task, m.id, None, "returned", {})
     \/ /\ templates' = SetStatus(templates, m.id)
        /\ queue' = Retry(Take(m), [m EXCEPT !.flag = FALSE], TemplateRetries)
        /\ hist' = hist
        /\ last' = Did(m.task, m.id, None,
                       IF Exhausted(m, TemplateRetries) THEN "raised" ELSE "retry", {})
  /\ UNCHANGED <<start, rpools, surplus, groups, providers, appliances, pools, dpts, vms, tvms, nextId,
                 nextTpl, now, faults>>

\* The provider finishes stopping a template's VM.
TemplateVmSettle(t) ==
  /\ tvms[t] = "stopping"
  /\ tvms' = [tvms EXCEPT ![t] = "stopped"]
  /\ last' = NoLast
  /\ UNCHANGED <<start, rpools, surplus, groups, providers, templates, appliances, pools, dpts, vms, queue,
                 nextId, nextTpl, now, faults, hist>>

\* prepare_template_finish(self, template_id)
prepare_template_finish ==
  \E m \in Pending :
  /\ m.task = "prepare_template_finish"
  /\ IF m.id \notin Ids(templates) THEN StepRaises(m)
     ELSE \/ /\ IsCreated(tvms, m.id)
             /\ StepReturns(m, [templates EXCEPT ![m.id].ready = TRUE,
                                                 ![m.id].exists = TRUE],
                            [tvms EXCEPT ![m.id] = "template"])
          \/ StepRetries(m, tvms)
  /\ UNCHANGED <<start, rpools, surplus, groups, providers, appliances, pools, dpts, vms, nextId, nextTpl,
                 now, faults>>

\* prepare_template_delete_on_error(self, template_id)
prepare_template_delete_on_error ==
  \E m \in Pending :
  /\ m.task = "prepare_template_delete_on_error"
  /\ IF m.id \notin Ids(templates)
     THEN /\ queue' = Succeed(Take(m), m, FALSE)
          /\ last' = Did(m.task, m.id, None, "gone", {})
          /\ UNCHANGED <<templates, tvms>>
     ELSE \/ /\ templates' = Del(templates, m.id)
             /\ tvms' = [tvms EXCEPT ![m.id] = "absent"]
             /\ queue' = Succeed(Take(m), m, FALSE)
             /\ last' = Did(m.task, m.id, None, "returned", {})
          \/ \* delete_vm raises
             /\ IsCreated(tvms, m.id)
             /\ templates' = SetStatus(templates, m.id)
             /\ tvms' = tvms
             /\ queue' = Retry(Take(m), m, TemplateRetries)
             /\ last' = Did(m.task, m.id, None,
                            IF Exhausted(m, TemplateRetries) THEN "raised" ELSE "retry", {})
  /\ UNCHANGED <<start, rpools, surplus, groups, providers, appliances, pools, dpts, vms, nextId, nextTpl,
                 now, faults, hist>>

\* ----------------------------------------------------------------- shepherd
\* Template.get_versions / Template.get_dates (models.py): the versions
\* (dates) of the group's ready templates; the newest comes first.
GetVersions(tpls, grp) ==
  {tpls[t].version : t \in {x \in Ids(tpls) : /\ tpls[x].ready /\ tpls[x].group = grp
                                              /\ tpls[x].version # None}}

GetDates(tpls, grp) ==
  {tpls[t].date : t \in {x \in Ids(tpls) : /\ tpls[x].ready /\ tpls[x].group = grp
                                           /\ tpls[x].date # None}}

Newest(S) == CHOOSE x \in S : \A y \in S : y <= x

Generation_ByDateFirst(tpls, grp) ==
  IF GetDates(tpls, grp) # {}
  THEN [by |-> "date", keep |-> Newest(GetDates(tpls, grp)),
        kill |-> GetDates(tpls, grp) \ {Newest(GetDates(tpls, grp))}]
  ELSE IF GetVersions(tpls, grp) # {}
  THEN [by |-> "version", keep |-> Newest(GetVersions(tpls, grp)),
        kill |-> GetVersions(tpls, grp) \ {Newest(GetVersions(tpls, grp))}]
  ELSE [by |-> "none", keep |-> None, kill |-> {}]

\* filter_keep and filters_kill of free_appliance_shepherd.
Generation(tpls, grp) ==
  IF GetVersions(tpls, grp) # {}
  THEN [by |-> "version", keep |-> Newest(GetVersions(tpls, grp)),
        kill |-> GetVersions(tpls, grp) \ {Newest(GetVersions(tpls, grp))}]
  ELSE IF GetDates(tpls, grp) # {}
  THEN [by |-> "date", keep |-> Newest(GetDates(tpls, grp)),
        kill |-> GetDates(tpls, grp) \ {Newest(GetDates(tpls, grp))}]
  ELSE [by |-> "none", keep |-> None, kill |-> {}]

GenerationOf(tpl, by) == IF by = "version" THEN tpl.version ELSE tpl.date

\* possible_templates
PossibleTemplates(tpls, grp, gen) ==
  {t \in Ids(tpls) : /\ tpls[t].ready /\ tpls[t].group = grp
                     /\ GenerationOf(tpls[t], gen.by) = gen.keep}

\* appliances: the unattached appliances of the possible templates.
ShepherdAppliances(apps, tset) ==
  {a \in Ids(apps) : apps[a].template \in tset /\ apps[a].pool = None}

SurplusKills_Newest(apps, cur, n) ==
  {K \in SUBSET cur :
     /\ Cardinality(K) = n
     /\ \A a \in K : \A b \in cur \ K :
          apps[a].status_changed >= apps[b].status_changed}

\* appliances.sort(key=status_changed); appliances[:len - template_pool_size]:
\* the n first of the sorted list, in any order the sort leaves equal keys.
SurplusKills(apps, cur, n) ==
  {K \in SUBSET cur :
     /\ Cardinality(K) = n
     /\ \A a \in K : \A b \in cur \ K :
          apps[a].status_changed <= apps[b].status_changed}

OldAppliances_WhenOverTarget(apps, tpls, grp, gen) ==
  IF Cardinality({a \in Ids(apps) : apps[a].pool = None}) > groups[grp].template_pool_size
  THEN {a \in Ids(apps) :
          /\ apps[a].pool = None /\ ~apps[a].marked
          /\ apps[a].template \in Ids(tpls)
          /\ tpls[apps[a].template].ready /\ tpls[apps[a].template].group = grp
          /\ GenerationOf(tpls[apps[a].template], gen.by) \in gen.kill}
  ELSE {}

\* The unattached, unmarked appliances of the older generations.
OldAppliances(apps, tpls, grp, gen) ==
  {a \in Ids(apps) :
     /\ apps[a].pool = None /\ ~apps[a].marked
     /\ apps[a].template \in Ids(tpls)
     /\ tpls[apps[a].template].ready /\ tpls[apps[a].template].group = grp
     /\ GenerationOf(tpls[apps[a].template], gen.by) \in gen.kill}

TplFree_AnyProvider(tpls, provs, tset) == tset

\* tpl_free: the templates for provision that are on non-busy providers.
TplFree(tpls, provs, tset) == {t \in tset : provs[tpls[t].provider].free}

RECURSIVE SendClones(_, _)
SendClones(q, ids) ==
  IF ids = {} THEN q
  ELSE LET a == CHOOSE x \in ids : TRUE IN
       SendClones(Send(q, Sig("clone_template_to_appliance", a, None, FALSE, NoAux)),
                  ids \ {a})

MarkAll(apps, ids) ==
  [a \in Ids(apps) |-> IF a \in ids THEN MarkForDeletion(apps, a)[a] ELSE apps[a]]

\* free_appliance_shepherd(self), the pass over the group.
free_appliance_shepherd_pass(q) ==
  \E grp \in Groups :
    LET gen == Generation(templates, grp)
        possible_templates == PossibleTemplates(templates, grp, gen)
        possible_templates_for_provision ==
          {t \in possible_templates : templates[t].exists}
        tpl_free == TplFree(templates, providers, possible_templates_for_provision)
        cur == ShepherdAppliances(appliances, possible_templates)
        size == groups[grp].template_pool_size
        old == OldAppliances(appliances, templates, grp, gen)
    IN
    /\ IF gen.by = "none"
       THEN \* continue: no templates detected yet
            /\ UNCHANGED <<appliances, nextId>>
            /\ queue' = q
            /\ last' = Did("free_appliance_shepherd", grp, None, "skipped", {})
       ELSE IF Cardinality(cur) < size /\ possible_templates_for_provision # {}
       THEN LET n == IF tpl_free = {} THEN 0 ELSE size - Cardinality(cur)
                new == nextId .. nextId + n - 1
            IN /\ Room(q, n + Cardinality(old))
               /\ \E c \in [new -> tpl_free] :
                    /\ appliances' =
                         MarkAll([a \in Ids(appliances) \cup new |->
                                    IF a \in new THEN Appliance(c[a], None)
                                    ELSE appliances[a]], old)
                    /\ nextId' = nextId + n
                    /\ queue' = SendKills(SendClones(q, new), old)
                    /\ last' = Did("free_appliance_shepherd", grp, None, "cloned", old)
       ELSE IF Cardinality(cur) > size
       THEN /\ Room(q, Cardinality(cur) - size + Cardinality(old))
            /\ \E K \in SurplusKills(appliances, cur, Cardinality(cur) - size) :
                 /\ appliances' = MarkAll(appliances, K \cup old)
                 /\ queue' = SendKills(q, K \cup old)
                 /\ last' = Did("free_appliance_shepherd", grp, None, "trimmed", K \cup old)
            /\ nextId' = nextId
       ELSE /\ Room(q, Cardinality(old))
            /\ appliances' = MarkAll(appliances, old)
            /\ queue' = SendKills(q, old)
            /\ nextId' = nextId
            /\ last' = Did("free_appliance_shepherd", grp, None, "returned", old)
    /\ UNCHANGED <<start, rpools, surplus, groups, providers, templates, pools, dpts, vms, tvms, nextTpl,
                   now, faults, hist>>

free_appliance_shepherd == free_appliance_shepherd_pass(queue)

\* ------------------------------------------------------ periodic bodies
\* provider.api.list_vm() answers for the providers in up and raises for the
\* others.
poke_providers_pass(q) ==
  \E up \in SUBSET Providers :
    /\ providers' = [p \in Providers |-> [providers[p] EXCEPT !.working = p \in up]]
    /\ queue' = q
    /\ last' = Did("poke_providers", None, None, "returned", up)
    /\ UNCHANGED <<start, rpools, surplus, groups, templates, appliances, pools, dpts, vms, tvms,
                   nextId, nextTpl, now, faults, hist>>

\* Appliance.retrieve_power_state(): the power state the provider reports.
PowerState(v) ==
  CASE v = "running" -> "on"
    [] v = "stopped" -> "off"
    [] v = "suspended" -> "suspended"
    [] v = "absent" -> "orphaned"
    [] OTHER -> "unknown"

retrieve_appliances_power_states_pass(q) ==
  /\ appliances' = [a \in Ids(appliances) |->
                      [appliances[a] EXCEPT !.power = PowerState(vms[a])]]
  /\ queue' = q
  /\ last' = Did("retrieve_appliances_power_states", None, None, "returned",
                 Ids(appliances))
  /\ UNCHANGED <<start, rpools, surplus, groups, providers, templates, pools, dpts, vms, tvms,
                 nextId, nextTpl, now, faults, hist>>

\* timezone.now() - timedelta(**settings.BROKEN_APPLIANCE_GRACE_TIME)
BROKEN_APPLIANCE_GRACE_TIME == 0
ExpirationTime == now - BROKEN_APPLIANCE_GRACE_TIME

Unreferenced_Always(apps, t) == TRUE

Unreferenced(apps, t) == \A a \in Ids(apps) : apps[a].template # t

\* The loop over Template.objects.all(), in primary-key order, up to the
\* template k at whose probe the provider call raises; k beyond the last
\* template is the loop that ran to its end.
retrieve_template_existence_loop(q, k, out) ==
  LET seen == {t \in Ids(templates) : t < k}
      gone == {t \in seen :
                 /\ ~IsCreated(tvms, t)
                 /\ Unreferenced(appliances, t)
                 /\ templates[t].status_changed < ExpirationTime}
  IN /\ templates' = [t \in Ids(templates) \ gone |->
                        IF t \in seen
                        THEN [templates[t] EXCEPT !.exists = IsCreated(tvms, t)]
                        ELSE templates[t]]
     /\ queue' = q
     /\ last' = Did("retrieve_template_existence", None, None, out, gone)
     /\ UNCHANGED <<start, rpools, surplus, groups, providers, appliances, pools, dpts, vms, tvms,
                    nextId, nextTpl, now, faults, hist>>

retrieve_template_existence_pass(q) ==
  \/ retrieve_template_existence_loop(q, MaxTemplates + 1, "returned")
  \/ \E k \in Ids(templates) : retrieve_template_existence_loop(q, k, "raised")

\* The three loops of delete_nonexistent_appliances: orphaned ready rows are
\* deleted; unready unmarked rows past the grace time are killed; rows marked
\* for deletion past the grace time, those of the second loop included, are
\* unmarked and killed again.
Orphans(apps) == {a \in Ids(apps) : apps[a].ready /\ apps[a].power = "orphaned"}

Broken_NoGrace(apps) ==
  {a \in Ids(apps) : ~apps[a].ready /\ ~apps[a].marked}

Broken(apps) ==
  {a \in Ids(apps) : /\ ~apps[a].ready /\ ~apps[a].marked
                     /\ apps[a].status_changed < ExpirationTime}

Stale(apps) ==
  {a \in Ids(apps) : apps[a].marked /\ apps[a].status_changed < ExpirationTime}

delete_nonexistent_appliances_pass(q) ==
  LET kept == [a \in Ids(appliances) \ Orphans(appliances) |-> appliances[a]]
      killed == MarkAll(kept, Broken(kept))
  IN /\ Room(q, Cardinality(Broken(kept)) + Cardinality(Stale(killed)))
     /\ appliances' = killed
     /\ queue' = SendKills(SendKills(q, Broken(kept)), Stale(killed))
     /\ last' = Did("delete_nonexistent_appliances", None, None, "returned",
                    Orphans(appliances))
     /\ UNCHANGED <<start, rpools, surplus, groups, providers, templates, pools, dpts, vms, tvms,
                    nextId, nextTpl, now, faults, hist>>

\* -------------------------------------------------------- periodic loops
Loop(t) == Msg(Sig(t, None, None, FALSE, NoAux), << >>, << >>)

\* finally: self.apply_async(countdown=...)
Reschedule_UnlessRaised(q, t, raised) ==
  IF raised THEN q ELSE q (+) One(Loop(t))

Reschedule(q, t, raised) == q (+) One(Loop(t))

\* A worker runs one invocation of the periodic task t: the body returns, or
\* raises before it changed anything, and the finally clause sends the next
\* invocation either way.
PeriodicRun(t, Body(_)) ==
  /\ BagIn(Loop(t), queue)
  /\ \/ Body(Reschedule(Take(Loop(t)), t, FALSE))
     \/ /\ queue' = Reschedule(Take(Loop(t)), t, TRUE)
        /\ last' = Did(t, None, None, "raised", {})
        /\ UNCHANGED <<start, rpools, surplus, groups, providers, templates, appliances, pools, dpts,
                       vms, tvms, nextId, nextTpl, now, faults, hist>>

poke_providers == PeriodicRun("poke_providers", poke_providers_pass)

retrieve_appliances_power_states ==
  PeriodicRun("retrieve_appliances_power_states", retrieve_appliances_power_states_pass)

retrieve_template_existence ==
  PeriodicRun("retrieve_template_existence", retrieve_template_existence_pass)

delete_nonexistent_appliances ==
  PeriodicRun("delete_nonexistent_appliances", delete_nonexistent_appliances_pass)

kill_unused_appliances_run ==
  PeriodicRun("kill_unused_appliances", kill_unused_appliances_pass)

poke_trackerbot_run == PeriodicRun("poke_trackerbot", poke_trackerbot_pass)

process_delayed_provision_tasks_run ==
  PeriodicRun("process_delayed_provision_tasks", process_delayed_provision_tasks_pass)

free_appliance_shepherd_run ==
  PeriodicRun("free_appliance_shepherd", free_appliance_shepherd_pass)

\* ------------------------------------------------------------ start_task
\* celeryd_init fires in a worker that starts.
start_task(w) ==
  /\ start[w].pc = "idle"
  /\ start' = [start EXCEPT ![w] = [pc |-> "inspect", i |-> 1]]
  /\ last' = NoLast
  /\ UNCHANGED <<rpools, surplus, groups, providers, templates, appliances, pools, dpts, vms, tvms,
                 queue, nextId, nextTpl, now, faults, hist>>

Scheduled(i) ==
  IF i = Len(StartOrder) THEN [pc |-> "done", i |-> 0]
  ELSE [pc |-> "inspect", i |-> i + 1]

\* schedule(t): the inspection of the active, scheduled and reserved tasks,
\* taken to see every message of the task system.
schedule_inspect(w) ==
  /\ start[w].pc = "inspect"
  /\ LET found == BagIn(Loop(StartOrder[start[w].i]), queue) IN
     start' = [start EXCEPT ![w] = IF found THEN Scheduled(@.i)
                                   ELSE [@ EXCEPT !.pc = "apply"]]
  /\ last' = NoLast
  /\ UNCHANGED <<rpools, surplus, groups, providers, templates, appliances, pools, dpts, vms, tvms,
                 queue, nextId, nextTpl, now, faults, hist>>

\* schedule(t): if not found, t.apply_async(countdown=...)
schedule_apply(w) ==
  /\ start[w].pc = "apply"
  /\ queue' = queue (+) One(Loop(StartOrder[start[w].i]))
  /\ start' = [start EXCEPT ![w] = Scheduled(@.i)]
  /\ last' = NoLast
  /\ UNCHANGED <<rpools, surplus, groups, providers, templates, appliances, pools, dpts, vms, tvms,
                 nextId, nextTpl, now, faults, hist>>

\* ------------------------------------------------------------------- Spec
ReadyTemplate(prov, grp, ver, date, orig) ==
  [provider |-> prov, group |-> grp, version |-> ver, date |-> date,
   original |-> orig, ready |-> TRUE, exists |-> TRUE, status_changed |-> 0]

NoRows == [i \in {} |-> None]

Init ==
  /\ start = NotStarted
  /\ rpools = NoRows
  /\ surplus = NoSurplus
  /\ groups = [g \in Groups |-> [template_pool_size |-> 1]]
  /\ providers \in [Providers -> {Provider(TRUE, TRUE),
                                  Provider(TRUE, FALSE)}]
  /\ templates = [t \in {1, 2} |-> ReadyTemplate(t, 1, 1, 1, 1)]
  /\ \E spares \in {0, 1} :
       /\ appliances = [a \in 1 .. spares |->
                          [template |-> 1, pool |-> None, ready |-> TRUE,
                           marked |-> FALSE, power |-> "on", ip |-> TRUE,
                           leased_until |-> NoTime, datetime_leased |-> NoTime,
                           status_changed |-> 0]]
       /\ vms = [a \in ApplianceIds |-> IF a <= spares THEN "running" ELSE "absent"]
       /\ nextId = spares + 1
  /\ \E total \in {1, 2} :
       pools = [p \in {1} |-> [group |-> 1, total_count |-> total, version |-> None,
                               date |-> None, lease |-> None]]
  /\ dpts = EmptyBag
  /\ tvms = [t \in {1, 2} |-> "template"]
  /\ queue = EmptyBag
  /\ nextTpl = 3
  /\ now = 0
  /\ faults = 0
  /\ last = NoLast
  /\ hist = NoRows

Next ==
  \/ \E p \in Ids(pools) : \E lease \in Leases : request_appliance_pool(p, lease)
  \/ apply_lease_times_after_pool_fulfilled
  \/ apply_lease_times
  \/ process_delayed_provision_tasks
  \/ clone_template_to_appliance
  \/ clone_template_to_appliance__clone_template
  \/ clone_template_to_appliance__wait_present
  \/ appliance_power_on
  \/ retrieve_appliance_ip
  \/ wait_appliance_ready
  \/ kill_unused_appliances
  \/ kill_appliance
  \/ appliance_power_off
  \/ kill_appliance_delete
  \/ replace_clone_to_pool
  \/ \E a \in ApplianceIds : VmSettle(a)
  \/ Tick

Spec == Init /\ [][Next]_vars

\* ================================================================= claims
CloneStep == "clone_template_to_appliance__clone_template"
ChainSteps == {CloneStep, "clone_template_to_appliance__wait_present",
               "appliance_power_on"}
QuotaKinds == {"overlimit", "quota", "limit"}

\* C1: when the clone step of a pool's appliance fails with a quota error,
\* then as the invocation returns the appliance row is gone, a
\* DelayedProvisionTask for the same pool carries the template's provider as
\* provider_to_avoid and the lease the pool was requested with, and neither a
\* retry of the clone step nor a later step of the chain is in the queue.
C1_QuotaDefers ==
  (last.task = CloneStep /\ last.out \in QuotaKinds /\ last.pool # None) =>
    /\ last.id \notin Ids(appliances)
    /\ BagIn(DelayedProvisionTask(last.pool, pools[last.pool].lease, last.prov), dpts)
    /\ \A m \in Pending : m.task \in ChainSteps => m.id # last.id

C1_Witness ==
  /\ last.task = CloneStep /\ last.out = "overlimit" /\ last.pool = 1
  /\ last.prov = 2 /\ last.lease = 2

\* C7: request_appliance_pool dispatches exactly max(0, total_count - n)
\* units after n spares were handed to the pool: new appliances of the pool,
\* each with one clone_template_to_appliance message carrying the lease, when
\* the pool has a provisioning template, DelayedProvisionTasks of the pool
\* otherwise.
RequestStep(p) == pools[p].lease = None /\ pools'[p].lease # None

C7_RequestDispatches ==
  [][\A p \in Ids(pools) : RequestStep(p) =>
       LET n == Cardinality({a \in Ids(appliances) :
                               appliances[a].pool = None /\ appliances'[a].pool = p})
           new == Ids(appliances') \ Ids(appliances)
           lease == pools'[p].lease
           task == DelayedProvisionTask(p, lease, None)
           deferred == CopiesIn(task, dpts') - CopiesIn(task, dpts)
           want == IF pools[p].total_count - n > 0 THEN pools[p].total_count - n ELSE 0
       IN /\ Cardinality(new) + deferred = want
          /\ BagCardinality(dpts') - BagCardinality(dpts) = deferred
          /\ PossibleProvisioningTemplates(pools, p) # {} => deferred = 0
          /\ PossibleProvisioningTemplates(pools, p) = {} => new = {}
          /\ \A a \in new :
               /\ appliances'[a].pool = p
               /\ CopiesIn(Msg(Sig("clone_template_to_appliance", a, lease, FALSE, NoAux),
                               << >>, << >>), queue') = 1
  ]_vars

\* A pool of 2 with no ready spare and a provisioning template: two clone
\* chains, no delayed task.
C7_Witness ==
  /\ last.task = "request_appliance_pool" /\ last.ids = {}
  /\ pools[1].total_count = 2
  /\ Cardinality(PoolAppliances(appliances, 1)) = 2
  /\ dpts = EmptyBag

\* C8: the lease watcher sends no apply_lease_times while the pool is not
\* fulfilled; when it sees the pool fulfilled it sends one apply_lease_times
\* per member appliance with the requested minutes; and every lease on a row
\* is datetime_leased plus the minutes the pool was requested with.
LeaseMsg(a, lease) ==
  Msg(Sig("apply_lease_times", a, lease, FALSE, NoAux), << >>, << >>)

WatcherStep ==
  /\ last'.task = "apply_lease_times_after_pool_fulfilled"
  /\ queue' # queue

C8_LeaseAfterFulfilled ==
  /\ [][WatcherStep =>
         \A a \in ApplianceIds : \A lease \in Leases :
           CopiesIn(LeaseMsg(a, lease), queue') - CopiesIn(LeaseMsg(a, lease), queue)
             = IF /\ last'.id \in Ids(pools)
                  /\ Fulfilled(appliances, pools, last'.id)
                  /\ a \in PoolAppliances(appliances, last'.id)
                  /\ lease = pools[last'.id].lease
               THEN 1 ELSE 0
     ]_vars
  /\ [](\A a \in Ids(appliances) :
          appliances[a].leased_until # NoTime =>
            /\ appliances[a].pool # None
            /\ appliances[a].datetime_leased # NoTime
            /\ appliances[a].leased_until =
                 appliances[a].datetime_leased + pools[appliances[a].pool].lease)

C8_Witness ==
  /\ last.task = "apply_lease_times" /\ last.out = "returned"
  /\ Cardinality({a \in Ids(appliances) : appliances[a].leased_until # NoTime}) = 2

\* C2: once leased_until <= now, the next pass of kill_unused_appliances
\* invokes kill_appliance for the appliance whatever its ready and
\* marked_for_deletion flags: after a pass, every appliance whose lease has
\* expired has a kill workflow in the queue.
KillSteps == {"kill_appliance", "appliance_power_off", "kill_appliance_delete"}

C2_SweepKillsEveryExpired ==
  last.task = "kill_unused_appliances" =>
    \A a \in Ids(appliances) :
      ExpiredLease(appliances[a]) =>
        \E m \in Pending : m.task \in KillSteps /\ m.id = a

\* ------------------------------------------------------------- SpecKill
\* An operator or a test fixture calls kill_appliance.delay(appliance_id,
\* replace_in_pool=replace) for any id, present or not.
kill_request(a, replace) ==
  /\ Room(queue, 1)
  /\ queue' = Send(queue, Sig("kill_appliance", a, DefaultMinutes, replace, NoAux))
  /\ last' = NoLast
  /\ UNCHANGED <<start, rpools, surplus, groups, providers, templates, appliances, pools, dpts, vms, tvms,
                 nextId, nextTpl, now, faults, hist>>

NextKill ==
  \/ \E a \in ApplianceIds : \E replace \in BOOLEAN : kill_request(a, replace)
  \/ \E p \in Ids(pools) : \E lease \in Leases : request_appliance_pool(p, lease)
  \/ clone_template_to_appliance
  \/ kill_appliance
  \/ appliance_power_off
  \/ kill_appliance_delete
  \/ replace_clone_to_pool
  \/ \E a \in ApplianceIds : VmSettle(a)

SpecKill == Init /\ [][NextKill]_vars

\* C3: deleting an appliance whose row is already absent, through
\* kill_appliance (with replace_in_pool False or True) or through its
\* kill_appliance_delete step, raises nothing, schedules no retry and changes
\* no row.
C3_DeletionIdempotent ==
  (last.task \in {"kill_appliance", "kill_appliance_delete"}
     /\ last.id \notin Ids(appliances)) =>
    last.out \in {"returned", "gone"}

\* ------------------------------------------------------------ SpecLease
\* The lease watcher against deferred provisioning: every poll of the
\* watcher counts, the provider load comes and goes.
apply_lease_times_after_pool_fulfilled_polling == LeaseWatch(FALSE)

NextLease ==
  \/ \E p \in Ids(pools) : \E lease \in Leases : request_appliance_pool(p, lease)
  \/ apply_lease_times_after_pool_fulfilled_polling
  \/ apply_lease_times
  \/ process_delayed_provision_tasks
  \/ clone_template_to_appliance
  \/ \E p \in Providers : ProviderLoad(p)

SpecLease == Init /\ [][NextLease]_vars

\* C9: when a requested pool reports fulfilled, however late, its watcher is
\* still polling or has dispatched the leases: every member appliance carries
\* a lease, or has its apply_lease_times in the queue, or the watcher of the
\* pool is in the queue.
C9_WatcherOutlastsProvisioning ==
  \A p \in Ids(pools) :
    (pools[p].lease # None /\ Fulfilled(appliances, pools, p)) =>
      \A a \in PoolAppliances(appliances, p) :
        \/ appliances[a].leased_until # NoTime
        \/ \E m \in Pending : m.task = "apply_lease_times" /\ m.id = a
        \/ \E m \in Pending :
             m.task = "apply_lease_times_after_pool_fulfilled" /\ m.id = p

\* --------------------------------------------------------- SpecTemplate
\* Template discovery and preparation on an empty template registry.
InitTemplate ==
  /\ start = NotStarted
  /\ rpools = NoRows
  /\ surplus = NoSurplus
  /\ groups = [g \in Groups |-> [template_pool_size |-> 1]]
  /\ providers = [p \in Providers |-> Provider(TRUE, TRUE)]
  /\ templates = NoRows
  /\ appliances = NoRows
  /\ pools = NoRows
  /\ dpts = EmptyBag
  /\ vms = [a \in ApplianceIds |-> "absent"]
  /\ tvms = [t \in 1 .. MaxTemplates |-> "absent"]
  /\ queue = EmptyBag
  /\ nextId = 1
  /\ nextTpl = 1
  /\ now = 0
  /\ faults = 0
  /\ last = NoLast
  /\ hist = NoRows

NextTemplate ==
  \/ poke_trackerbot
  \/ create_appliance_template
  \/ create_appliance_template_save
  \/ prepare_template_deploy
  \/ prepare_template_configure
  \/ prepare_template_network_setup
  \/ prepare_template_poweroff
  \/ prepare_template_finish
  \/ prepare_template_delete_on_error

SpecTemplate == InitTemplate /\ [][NextTemplate]_vars

\* C4: for every (provider, group, original name) there is at most one
\* Template row, however many create_appliance_template invocations for the
\* triple are in flight at once.
C4_OneTemplatePerSource ==
  \A t1 \in Ids(templates) : \A t2 \in Ids(templates) :
    (/\ templates[t1].provider = templates[t2].provider
     /\ templates[t1].group = templates[t2].group
     /\ templates[t1].original = templates[t2].original) => t1 = t2

\* C5: a Template becomes ready only in prepare_template_finish, after
\* deploy, configure, network_setup and poweroff returned for it in that
\* order, and a step of the chain is in the queue only when exactly the steps
\* before it have returned.
PrepareSteps ==
  << "prepare_template_deploy", "prepare_template_configure",
     "prepare_template_network_setup", "prepare_template_poweroff",
     "prepare_template_finish" >>

BecomesReady(t) ==
  /\ t \in Ids(templates') /\ templates'[t].ready
  /\ t \in Ids(templates) => ~templates[t].ready

C5_ReadyOnlyAfterChain ==
  /\ [][\A t \in 1 .. MaxTemplates : BecomesReady(t) =>
          /\ last'.task = "prepare_template_finish" /\ last'.id = t
          /\ hist[t] = SubSeq(PrepareSteps, 1, 4)
          /\ hist'[t] = PrepareSteps
     ]_vars
  /\ [](\A t \in Ids(templates) : templates[t].ready => hist[t] = PrepareSteps)
  /\ [](\A m \in Pending : \A i \in 1 .. 5 :
          m.task = PrepareSteps[i] => hist[m.id] = SubSeq(PrepareSteps, 1, i - 1))

C5_Witness ==
  /\ last.task = "prepare_template_finish" /\ last.out = "returned"
  /\ last.id \in Ids(templates) /\ templates[last.id].ready
  /\ tvms[last.id] = "template"

\* C6: a Template that is not ready has either a step of its preparation
\* chain or its prepare_template_delete_on_error in the queue, so that a
\* failed chain ends with the row removed; and the VM of a removed row is
\* removed with it.
CleanupSteps == {PrepareSteps[i] : i \in 1 .. 5} \cup {"prepare_template_delete_on_error"}

C6_FailedChainCleanedUp ==
  /\ \A t \in Ids(templates) :
       ~templates[t].ready => \E m \in Pending : m.task \in CleanupSteps /\ m.id = t
  /\ \A t \in Ids(hist) \ Ids(templates) : ~IsCreated(tvms, t)

\* --------------------------------------------------------- SpecShepherd
\* The shepherd over a standing pool: two ready templates of one or two
\* generations on providers busy or free, up to MaxSpares unattached
\* appliances of any age, the first of them cloned from template 1 and the
\* others from template 2.
PoolSizes == {2, 3}
Generations == {<<1, 1>>, <<1, 2>>, <<None, None>>}

InitShepherd ==
  /\ start = NotStarted
  /\ rpools = NoRows
  /\ surplus = NoSurplus
  /\ groups \in [Groups -> [template_pool_size : PoolSizes]]
  /\ providers \in [Providers -> {Provider(TRUE, TRUE),
                                  Provider(TRUE, FALSE)}]
  /\ \E ver \in Generations : \E exists \in BOOLEAN :
       templates = [t \in {1, 2} |->
                      [ReadyTemplate(t, 1, ver[t], t, 1) EXCEPT
                         !.exists = IF t = 2 THEN exists ELSE TRUE]]
  /\ \E n \in 0 .. MaxSpares : \E first \in 0 .. n : \E age \in [1 .. n -> Times] :
       \* the rows of one template are listed from the oldest to the youngest
       /\ \A a \in 1 .. n : \A b \in 1 .. n :
            (a < b /\ (a <= first <=> b <= first)) => age[a] <= age[b]
       /\ appliances = [a \in 1 .. n |->
                          [template |-> IF a <= first THEN 1 ELSE 2, pool |-> None,
                           ready |-> TRUE, marked |-> FALSE, power |-> "on",
                           ip |-> TRUE, leased_until |-> NoTime,
                           datetime_leased |-> NoTime, status_changed |-> age[a]]]
       /\ nextId = n + 1
  /\ vms = [a \in 1 .. MaxSpares |-> "running"]
  /\ pools = NoRows
  /\ dpts = EmptyBag
  /\ tvms = [t \in {1, 2} |-> "template"]
  /\ queue = EmptyBag
  /\ nextTpl = 3
  /\ now = MaxTime
  /\ faults = 0
  /\ last = NoLast
  /\ hist = NoRows

NextShepherd ==
  \/ free_appliance_shepherd
  \/ kill_appliance
  \/ clone_template_to_appliance

SpecShepherd == InitShepherd /\ [][NextShepherd]_vars

\* C10: in a shepherd pass that finds k unattached appliances of the current
\* generation and a target pool size t < k, exactly k - t of them are killed
\* (marked for deletion, one kill_appliance each), none of the killed is
\* younger by status_changed than one that is kept, the kept rows are left
\* as they are, and no appliance is created and no clone is dispatched.
KillMsg(a) == Msg(Sig("kill_appliance", a, DefaultMinutes, FALSE, NoAux), << >>, << >>)

CloneMsgs(q) == {m \in BagToSet(q) : m.task = "clone_template_to_appliance"}

C10_ShepherdTrimsOldest ==
  [][last'.task = "free_appliance_shepherd" =>
       LET grp == last'.id
           cur == ShepherdAppliances(appliances,
                    PossibleTemplates(templates, grp, Generation(templates, grp)))
           k == Cardinality(cur)
           t == groups[grp].template_pool_size
           killed == {a \in cur : CopiesIn(KillMsg(a), queue') > CopiesIn(KillMsg(a), queue)}
       IN k > t =>
            /\ Cardinality(killed) = k - t
            /\ \A a \in killed :
                 /\ CopiesIn(KillMsg(a), queue') = CopiesIn(KillMsg(a), queue) + 1
                 /\ appliances'[a].marked
                 /\ \A b \in cur \ killed :
                      appliances[a].status_changed <= appliances[b].status_changed
            /\ \A b \in cur \ killed : appliances'[b] = appliances[b]
            /\ Ids(appliances') = Ids(appliances)
            /\ \A m \in CloneMsgs(queue') : CopiesIn(m, queue') = CopiesIn(m, queue)
  ]_vars

\* Target size 3 and 5 unattached appliances of the current generation, two
\* of them older than the other three: those two are killed.
C10_Witness ==
  /\ last.task = "free_appliance_shepherd" /\ last.out = "trimmed"
  /\ groups[1].template_pool_size = 3
  /\ Cardinality(Ids(appliances)) = 5
  /\ Cardinality(last.ids) = 2
  /\ \A a \in Ids(appliances) :
       /\ appliances[a].marked <=> a \in last.ids
       /\ appliances[a].status_changed = (IF a \in last.ids THEN 0 ELSE 1)
  /\ BagCardinality(queue) = 2

\* C11: in a shepherd pass that finds k unattached appliances of the current
\* generation below the target size t, every appliance the pass creates is a
\* spare cloned from a ready, existing template of the current generation
\* whose provider is free, with one clone_template_to_appliance sent for it;
\* at least one is created when such a template exists and at most t - k are;
\* a pass that does not find k below t creates none.
CloneMsg(a) ==
  Msg(Sig("clone_template_to_appliance", a, None, FALSE, NoAux), << >>, << >>)

C11_ShepherdClonesFromFreeCurrent ==
  [][last'.task = "free_appliance_shepherd" =>
       LET grp == last'.id
           gen == Generation(templates, grp)
           cur == ShepherdAppliances(appliances, PossibleTemplates(templates, grp, gen))
           k == Cardinality(cur)
           t == groups[grp].template_pool_size
           usable == {x \in Ids(templates) :
                        /\ templates[x].ready /\ templates[x].exists
                        /\ templates[x].group = grp
                        /\ GenerationOf(templates[x], gen.by) = gen.keep
                        /\ providers[templates[x].provider].free}
           new == Ids(appliances') \ Ids(appliances)
       IN /\ \A a \in new :
               /\ appliances'[a].template \in usable
               /\ appliances'[a].pool = None
               /\ CopiesIn(CloneMsg(a), queue') = 1
          /\ (k < t /\ usable # {}) => Cardinality(new) >= 1
          /\ k < t => Cardinality(new) <= t - k
          /\ k >= t => new = {}
  ]_vars

\* Target size 3, one spare of the current generation, provider 1 busy and
\* provider 2 free: two spares are cloned from the template on provider 2.
C11_Witness ==
  /\ last.task = "free_appliance_shepherd" /\ last.out = "cloned"
  /\ groups[1].template_pool_size = 3
  /\ Cardinality(Ids(appliances)) = 3
  /\ Cardinality({a \in Ids(appliances) : CopiesIn(CloneMsg(a), queue) = 1}) = 2
  /\ ~providers[1].free /\ providers[2].free
  /\ \A a \in {2, 3} : appliances[a].template = 2

\* -------------------------------------------------------- SpecGeneration
\* The shepherd over template registries of every shape: two templates, each
\* ready or not, with or without a version, and up to MaxAppliances - 1
\* appliances, attached or not, marked for deletion or not.
GenPoolSizes == {1, 2}
Versions == {None, 1, 2}

InitGeneration ==
  /\ start = NotStarted
  /\ rpools = NoRows
  /\ surplus = NoSurplus
  /\ groups \in [Groups -> [template_pool_size : GenPoolSizes]]
  /\ providers = [p \in Providers |-> Provider(TRUE, TRUE)]
  /\ \E ver \in [{1, 2} -> Versions] : \E rdy \in [{1, 2} -> BOOLEAN] :
       templates = [t \in {1, 2} |->
                      [ReadyTemplate(t, 1, ver[t], t, 1) EXCEPT !.ready = rdy[t]]]
  /\ \E n \in 0 .. MaxAppliances - 1 :
       /\ appliances \in [1 .. n -> [template : {1, 2}, pool : {None, 1},
                                     ready : {TRUE}, marked : BOOLEAN,
                                     power : {"on"}, ip : {TRUE},
                                     leased_until : {NoTime},
                                     datetime_leased : {NoTime},
                                     status_changed : {0}]]
       /\ nextId = n + 1
  /\ vms = [a \in ApplianceIds |-> "running"]
  /\ pools = [p \in {1} |-> [group |-> 1, total_count |-> 1, version |-> None,
                              date |-> None, lease |-> 1]]
  /\ dpts = EmptyBag
  /\ tvms = [t \in {1, 2} |-> "template"]
  /\ queue = EmptyBag
  /\ nextTpl = 3
  /\ now = 0
  /\ faults = 0
  /\ last = NoLast
  /\ hist = NoRows

NextGeneration ==
  \/ free_appliance_shepherd
  \/ kill_appliance
  \/ clone_template_to_appliance

SpecGeneration == InitGeneration /\ [][NextGeneration]_vars

\* The ready templates of the group, those of them that report a version,
\* and the templates of a generation older than the newest one.
ReadyOf(grp) == {t \in Ids(templates) : templates[t].ready /\ templates[t].group = grp}

Versioned(grp) == {t \in ReadyOf(grp) : templates[t].version # None}

OlderTemplates(grp) ==
  IF Versioned(grp) # {}
  THEN {t \in Versioned(grp) :
          \E u \in Versioned(grp) : templates[u].version > templates[t].version}
  ELSE {t \in ReadyOf(grp) :
          /\ templates[t].date # None
          /\ \E u \in ReadyOf(grp) :
               templates[u].date # None /\ templates[u].date > templates[t].date}

\* C12: in every shepherd pass every unattached appliance that is not marked
\* for deletion and was cloned from a ready template of an older generation
\* of the group is killed (marked, one kill_appliance sent), whatever the
\* target pool size and the number of current-generation spares.
C12_ShepherdKillsOlderGenerations ==
  [][last'.task = "free_appliance_shepherd" =>
       \A a \in Ids(appliances) :
         (/\ appliances[a].pool = None /\ ~appliances[a].marked
          /\ appliances[a].template \in OlderTemplates(last'.id)) =>
           /\ a \in Ids(appliances') /\ appliances'[a].marked
           /\ CopiesIn(KillMsg(a), queue') = CopiesIn(KillMsg(a), queue) + 1
  ]_vars

\* Target size 2 and a single spare, of the older version: it is killed in
\* the pass that clones two spares of the newer version.
C12_Witness ==
  /\ last.task = "free_appliance_shepherd" /\ last.ids = {1}
  /\ last.out = "cloned" /\ groups[1].template_pool_size = 2
  /\ Ids(appliances) = {1, 2, 3}
  /\ appliances[1].marked /\ appliances[1].template = 2
  /\ appliances[2].template = 1 /\ appliances[3].template = 1
  /\ templates[1].version = 2 /\ templates[2].version = 1
  /\ templates[1].ready /\ templates[2].ready
  /\ CopiesIn(KillMsg(1), queue) = 1

\* C13: the shepherd takes the generations by version when a ready template
\* of the group reports one, the newest version being kept and every other
\* version killed, and by date only when none does; the kept generation is
\* not among the killed ones; a group without a ready template is skipped,
\* the pass leaving appliances and queue as they are.
C13_GenerationByVersionThenDate ==
  /\ [](\A grp \in Groups :
          LET gen == Generation(templates, grp)
              vs == {templates[t].version : t \in Versioned(grp)}
              ds == {templates[t].date : t \in ReadyOf(grp)} \ {None}
          IN /\ vs # {} =>
                  /\ gen.by = "version" /\ gen.keep \in vs
                  /\ \A v \in vs : v <= gen.keep
                  /\ gen.kill = vs \ {gen.keep}
             /\ (vs = {} /\ ds # {}) =>
                  /\ gen.by = "date" /\ gen.keep \in ds
                  /\ \A d \in ds : d <= gen.keep
                  /\ gen.kill = ds \ {gen.keep}
             /\ ReadyOf(grp) = {} => gen.by = "none"
             /\ gen.keep \notin gen.kill)
  /\ [][(last'.task = "free_appliance_shepherd" /\ ReadyOf(last'.id) = {}) =>
          /\ last'.out = "skipped"
          /\ appliances' = appliances /\ queue' = queue
     ]_vars

\* The template with the newer date carries the older version: the pass
\* keeps the spare of the newer version and kills the other.
C13_Witness ==
  /\ last.task = "free_appliance_shepherd"
  /\ templates[1].ready /\ templates[2].ready
  /\ templates[1].version = 2 /\ templates[2].version = 1
  /\ Ids(appliances) = {1, 2}
  /\ appliances[1].template = 1 /\ ~appliances[1].marked
  /\ appliances[2].template = 2 /\ appliances[2].marked
  /\ last.ids = {2}

\* ------------------------------------------------------------ SpecStart
\* The workers of an idle installation start, each running start_task once,
\* while the periodic loops already scheduled run: every provider has its
\* template, no spares are wanted, no appliances, no pools.
InitStart ==
  /\ start = NotStarted
  /\ rpools = NoRows
  /\ surplus = NoSurplus
  /\ groups = [g \in Groups |-> [template_pool_size |-> 0]]
  /\ providers = [p \in Providers |-> Provider(TRUE, TRUE)]
  /\ templates = [t \in {1, 2} |-> ReadyTemplate(t, 1, 1, 1, 1)]
  /\ appliances = NoRows
  /\ pools = NoRows
  /\ dpts = EmptyBag
  /\ vms = [a \in ApplianceIds |-> "absent"]
  /\ tvms = [t \in 1 .. MaxTemplates |-> "template"]
  /\ queue = EmptyBag
  /\ nextId = 1
  /\ nextTpl = 3
  /\ now = 0
  /\ faults = 0
  /\ last = NoLast
  /\ hist = NoRows

NextStart ==
  \/ \E w \in Workers : start_task(w)
  \/ \E w \in Workers : schedule_inspect(w)
  \/ \E w \in Workers : schedule_apply(w)
  \/ poke_providers
  \/ kill_unused_appliances_run
  \/ poke_trackerbot_run
  \/ process_delayed_provision_tasks_run
  \/ retrieve_appliances_power_states
  \/ retrieve_template_existence
  \/ delete_nonexistent_appliances
  \/ free_appliance_shepherd_run

SpecStart == InitStart /\ [][NextStart]_vars

\* C14: at any time the task system holds at most one instance of each of
\* the eight periodic tasks, however the start_task routines of the workers
\* interleave.
C14_OnePeriodicInstance ==
  \A t \in PeriodicTasks : CopiesIn(Loop(t), queue) <= 1

\* --------------------------------------------------------- SpecPeriodic
\* The eight loops after one worker ran start_task: one ready template, one
\* ready spare that may be leased out and whose VM may be gone, one pool
\* that may have a delayed provisioning task.
Started == [w \in Workers |-> IF w = 1 THEN [pc |-> "done", i |-> 0]
                              ELSE [pc |-> "idle", i |-> 0]]

RECURSIVE ScheduleAll(_, _)
ScheduleAll(q, i) ==
  IF i > Len(StartOrder) THEN q ELSE ScheduleAll(q (+) One(Loop(StartOrder[i])), i + 1)

InitPeriodic ==
  /\ start = Started
  /\ rpools = NoRows
  /\ surplus = NoSurplus
  /\ groups = [g \in Groups |-> [template_pool_size |-> 1]]
  /\ providers = [p \in Providers |-> Provider(TRUE, TRUE)]
  /\ templates = [t \in {1} |-> ReadyTemplate(1, 1, 1, 1, 1)]
  /\ \E tv \in {"template", "absent"} :
       tvms = [t \in 1 .. MaxTemplates |-> IF t = 1 THEN tv ELSE "absent"]
  /\ \E lease \in {NoTime, 0} : \E v \in {"running", "absent"} :
       /\ appliances = [a \in {1} |->
                          [template |-> 1, pool |-> None, ready |-> TRUE,
                           marked |-> FALSE, power |-> "on", ip |-> TRUE,
                           leased_until |-> lease, datetime_leased |-> lease,
                           status_changed |-> 0]]
       /\ vms = [a \in ApplianceIds |-> IF a = 1 THEN v ELSE "absent"]
  /\ pools = [p \in {1} |-> [group |-> 1, total_count |-> 1, version |-> None,
                             date |-> None, lease |-> 1]]
  /\ dpts \in {EmptyBag, One(DelayedProvisionTask(1, 1, None))}
  /\ queue = ScheduleAll(EmptyBag, 1)
  /\ nextId = 2
  /\ nextTpl = 2
  /\ now = 0
  /\ faults = 0
  /\ last = NoLast
  /\ hist = NoRows

NextPeriodic ==
  \/ poke_providers
  \/ kill_unused_appliances_run
  \/ poke_trackerbot_run
  \/ process_delayed_provision_tasks_run
  \/ retrieve_appliances_power_states
  \/ retrieve_template_existence
  \/ delete_nonexistent_appliances
  \/ free_appliance_shepherd_run
  \/ Tick

SpecPeriodic == InitPeriodic /\ [][NextPeriodic]_vars

\* C15: every invocation of a periodic task, whether its body returned or
\* raised, takes its own message and leaves exactly one successor of itself:
\* the number of messages of that loop is the same after the invocation as
\* before, and no message of another loop appears or disappears.
C15_OneSuccessor ==
  [][\A t \in PeriodicTasks :
       last'.task = t =>
         /\ last'.out \in {"returned", "raised", "skipped", "cloned", "trimmed"}
         /\ CopiesIn(Loop(t), queue) >= 1
         /\ \A u \in PeriodicTasks : CopiesIn(Loop(u), queue') = CopiesIn(Loop(u), queue)
  ]_vars

\* A pass of the shepherd raised after other passes left work in the queue,
\* and every loop still has its one message.
C15_Witness ==
  /\ last.task = "free_appliance_shepherd" /\ last.out = "raised"
  /\ QueueSize(queue) > 0
  /\ \A t \in PeriodicTasks : CopiesIn(Loop(t), queue) = 1

\* ------------------------------------------------------------ SpecPower
\* A power task was requested for an appliance: one that is ready, its VM
\* running, or one that is not, its VM in any state. The request is at its
\* first invocation or has one or no retry left.
PowerTasks == {"appliance_power_on", "appliance_power_off", "appliance_suspend"}

MaxRetries(t) ==
  CASE t = "appliance_power_on" -> PowerOnRetries
    [] t = "appliance_power_off" -> PowerOffRetries
    [] OTHER -> SuspendRetries

VmStates == {"absent", "stopped", "starting", "running", "stopping", "suspending",
             "suspended"}

InitPower ==
  /\ start = NotStarted
  /\ rpools = NoRows
  /\ surplus = NoSurplus
  /\ groups = [g \in Groups |-> [template_pool_size |-> 1]]
  /\ providers = [p \in Providers |-> Provider(TRUE, TRUE)]
  /\ templates = [t \in {1} |-> ReadyTemplate(1, 1, 1, 1, 1)]
  /\ \E rdy \in BOOLEAN : \E pw \in {"unknown", "on"} : \E v \in VmStates :
       /\ rdy => pw = "on" /\ v = "running"
       /\ appliances = [a \in {1} |->
                          [template |-> 1, pool |-> None, ready |-> rdy,
                           marked |-> FALSE, power |-> pw, ip |-> rdy,
                           leased_until |-> NoTime, datetime_leased |-> NoTime,
                           status_changed |-> 0]]
       /\ vms = [a \in ApplianceIds |-> IF a = 1 THEN v ELSE "absent"]
  /\ pools = NoRows
  /\ dpts = EmptyBag
  /\ tvms = [t \in 1 .. MaxTemplates |-> IF t = 1 THEN "template" ELSE "absent"]
  /\ \E t \in PowerTasks : \E left \in {0, 1} : \E first \in BOOLEAN :
       queue = One([Msg(Sig(t, 1, None, FALSE, NoAux), << >>, << >>) EXCEPT
                      !.retries = IF first THEN 0 ELSE MaxRetries(t) - left])
  /\ nextId = 2
  /\ nextTpl = 2
  /\ now = 0
  /\ faults = 0
  /\ last = NoLast
  /\ hist = NoRows

NextPower ==
  \/ appliance_power_on
  \/ appliance_power_off
  \/ appliance_suspend
  \/ retrieve_appliance_ip
  \/ wait_appliance_ready
  \/ \E a \in ApplianceIds : VmSettle(a)

SpecPower == InitPower /\ [][NextPower]_vars

Desired(t) ==
  CASE t = "appliance_power_on" -> "running"
    [] t = "appliance_power_off" -> "stopped"
    [] OTHER -> "suspended"

Committed(t) ==
  CASE t = "appliance_power_on" -> "on"
    [] t = "appliance_power_off" -> "off"
    [] OTHER -> "suspended"

Unsteady == {"starting", "stopping", "suspending"}

\* The invocation of task t for appliance a that this step is, when the
\* provider answered its queries.
PowerStep(t, a) ==
  /\ last'.task = t /\ last'.id = a /\ last'.out # "error"
  /\ a \in Ids(appliances)

\* A message of t for a is in the queue after the step that was not before.
Reinvoked(t, a) ==
  \E m \in BagToSet(queue') :
    /\ m.task = t /\ m.id = a
    /\ CopiesIn(m, queue') > CopiesIn(m, queue)

\* The invocation was of a request whose retries are used up, and it failed.
GaveUp(t, a) ==
  \E m \in Pending :
    /\ m.task = t /\ m.id = a /\ Exhausted(m, MaxRetries(t))
    /\ queue' = Fail(Take(m), m)

PowerPoll(t, a, settled) ==
  /\ vms[a] = Desired(t) =>
       /\ appliances'[a].power = Committed(t)
       /\ ~Reinvoked(t, a)
       /\ vms' = vms
  /\ vms[a] \in Unsteady =>
       /\ vms' = vms
       /\ appliances'[a].power = appliances[a].power
       /\ settled
  /\ vms[a] \notin Unsteady \cup {Desired(t)} =>
       /\ last'.out = "command"
       /\ appliances'[a].power = appliances[a].power
       /\ settled

NeverCommittedUnreported ==
  \A t \in PowerTasks : \A a \in Ids(appliances) :
    (last'.task = t /\ last'.id = a) =>
      /\ last'.out = "returned" => vms[a] = Desired(t)
      /\ appliances'[a].power # appliances[a].power =>
           vms[a] = Desired(t) /\ appliances'[a].power = Committed(t)

\* C16 as stated: in one invocation of a power task, a VM reported in the
\* desired state has that state committed to the record and no re-invocation
\* is scheduled; a VM not in a steady state gets no command and a
\* re-invocation is scheduled; a VM steady in a wrong state gets the
\* transition command and a re-invocation is scheduled; and the power state
\* is committed only when the provider reported it.
C16_PowerPoll ==
  [][/\ \A t \in PowerTasks : \A a \in ApplianceIds :
          PowerStep(t, a) => PowerPoll(t, a, Reinvoked(t, a))
     /\ NeverCommittedUnreported
  ]_vars

\* C16 amended: the same, except that the invocation of a request whose
\* retries are used up (30 for power on and suspend, 40 for power off)
\* schedules no re-invocation: it issues the command, if one is due, and
\* fails.
C16_PowerPollWhileRetriesLeft ==
  [][/\ \A t \in PowerTasks : \A a \in ApplianceIds :
          PowerStep(t, a) => PowerPoll(t, a, Reinvoked(t, a) \/ GaveUp(t, a))
     /\ NeverCommittedUnreported
  ]_vars

\* A power-off found the VM running on its last retry: stop_vm was issued
\* and no message of the task is left.
C16_Witness ==
  /\ last.task = "appliance_power_off" /\ last.out = "command" /\ last.id = 1
  /\ vms[1] = "stopping"
  /\ \A m \in Pending : m.task # "appliance_power_off"

\* C17: in every state an appliance with ready=True has a VM that the
\* provider reports running.
C17_ReadyMeansRunning ==
  \A a \in Ids(appliances) : appliances[a].ready => vms[a] = "running"

\* ------------------------------------------------------------ SpecChain
\* The shepherd created an appliance row and sent its
\* clone_template_to_appliance; the workers run the chain, one handler at a
\* time or with the statements of appliance_power_on interleaved with other
\* handlers.
InitChain ==
  /\ start = NotStarted
  /\ rpools = NoRows
  /\ surplus = NoSurplus
  /\ groups = [g \in Groups |-> [template_pool_size |-> 1]]
  /\ providers = [p \in Providers |-> Provider(TRUE, TRUE)]
  /\ templates = [t \in {1} |-> ReadyTemplate(1, 1, 1, 1, 1)]
  /\ now = 0
  /\ appliances = [a \in {1} |->
                     [template |-> 1, pool |-> None, ready |-> FALSE,
                      marked |-> FALSE, power |-> "unknown", ip |-> FALSE,
                      leased_until |-> NoTime, datetime_leased |-> NoTime,
                      status_changed |-> 0]]
  /\ vms = [a \in ApplianceIds |-> "absent"]
  /\ pools = NoRows
  /\ dpts = EmptyBag
  /\ tvms = [t \in 1 .. MaxTemplates |-> IF t = 1 THEN "template" ELSE "absent"]
  /\ queue = Send(EmptyBag, Sig("clone_template_to_appliance", 1, None, FALSE, NoAux))
  /\ nextId = 2
  /\ nextTpl = 2
  /\ faults = 0
  /\ last = NoLast
  /\ hist = NoRows

NextChain ==
  \/ clone_template_to_appliance
  \/ clone_template_to_appliance__clone_template
  \/ clone_template_to_appliance__wait_present
  \/ appliance_power_on
  \/ appliance_power_on_running
  \/ appliance_power_on_commit
  \/ retrieve_appliance_ip
  \/ wait_appliance_ready
  \/ \E a \in ApplianceIds : VmSettle(a)

SpecChain == InitChain /\ [][NextChain]_vars

\* C18 as stated: an appliance is ready only after its steps happened in
\* order: an IP address is on the record of a ready appliance, power_state
\* ON was committed before the IP address was stored, and the VM was cloned
\* and present before power_state ON was committed.
C18_ReadyAfterChainInOrder ==
  \A a \in Ids(appliances) :
    /\ appliances[a].ready => appliances[a].ip
    /\ appliances[a].ip => appliances[a].power = "on"
    /\ appliances[a].power = "on" => Exists(vms[a])

FreshMsg(t, a) == Msg(Sig(t, a, None, FALSE, NoAux), << >>, << >>)

Dispatched(t, a) == CopiesIn(FreshMsg(t, a), queue') > CopiesIn(FreshMsg(t, a), queue)

\* C18 amended: an appliance is ready only after its clone step returned,
\* its VM was seen present, power_state ON was committed and an IP address
\* was stored, the last two in either order: the power-on, IP and readiness
\* steps are in the queue only for a VM that is present, a stored IP address
\* or a committed ON means a present VM, readiness means both; and
\* retrieve_appliance_ip and wait_appliance_ready are sent only by an
\* invocation of appliance_power_on that found the VM running.
C18_ReadyAfterChain ==
  /\ [](\A a \in Ids(appliances) :
          /\ appliances[a].ready => appliances[a].ip /\ appliances[a].power = "on"
          /\ appliances[a].ip => Exists(vms[a])
          /\ appliances[a].power = "on" => Exists(vms[a]))
  /\ [](\A m \in Pending :
          m.task \in {"appliance_power_on", "retrieve_appliance_ip",
                      "wait_appliance_ready"} => Exists(vms[m.id]))
  /\ [][\A a \in ApplianceIds :
          (Dispatched("retrieve_appliance_ip", a) \/ Dispatched("wait_appliance_ready", a))
            => /\ last'.task = "appliance_power_on" /\ last'.id = a
               /\ vms[a] = "running"
     ]_vars

\* The appliance of the chain became ready.
C18_Witness ==
  /\ 1 \in Ids(appliances)
  /\ appliances[1].ready /\ appliances[1].ip /\ appliances[1].power = "on"
  /\ last.task = "wait_appliance_ready" /\ last.out = "returned"

\* ----------------------------------------------------------- SpecReplay
\* A pool of two with one or two delayed provisioning tasks, with or without
\* a provider to avoid; two ready templates on one provider or on two;
\* providers that fill up and free up between the passes.
Avoids == {None} \cup Providers

DelayedTasks == {DelayedProvisionTask(1, lease, avoid) : lease \in Leases, avoid \in Avoids}

InitReplay ==
  /\ start = NotStarted
  /\ rpools = NoRows
  /\ surplus = NoSurplus
  /\ groups = [g \in Groups |-> [template_pool_size |-> 1]]
  /\ providers \in [Providers -> {Provider(TRUE, TRUE),
                                  Provider(TRUE, FALSE)}]
  /\ \E prov \in Providers :
       templates = [t \in {1, 2} |-> ReadyTemplate(IF t = 1 THEN 1 ELSE prov, 1, 1, 1, 1)]
  /\ appliances = NoRows
  /\ pools = [p \in {1} |-> [group |-> 1, total_count |-> 2, version |-> None,
                             date |-> None, lease |-> 1]]
  /\ \E n \in {1, 2} : \E sq \in [1 .. n -> DelayedTasks] : dpts = SeqToBag(sq)
  /\ vms = [a \in ApplianceIds |-> "absent"]
  /\ tvms = [t \in 1 .. MaxTemplates |-> "template"]
  /\ queue = EmptyBag
  /\ nextId = 1
  /\ nextTpl = 3
  /\ now = 0
  /\ faults = 0
  /\ last = NoLast
  /\ hist = NoRows

NextReplay ==
  \/ process_delayed_provision_tasks
  \/ clone_template_to_appliance
  \/ \E p \in Providers : ProviderLoad(p)

SpecReplay == InitReplay /\ [][NextReplay]_vars

ReplayStep == last'.task = "process_delayed_provision_tasks"

\* The rows of task d deleted by the step.
Deleted(d) == CopiesIn(d, dpts) - CopiesIn(d, dpts')

\* The appliances the step created for pool p with a clone sent with lease.
Cloned(p, lease) ==
  {a \in Ids(appliances') \ Ids(appliances) :
     /\ appliances'[a].pool = p
     /\ CopiesIn(Msg(Sig("clone_template_to_appliance", a, lease, FALSE, NoAux),
                     << >>, << >>), queue') = 1}

RECURSIVE DeletedOf(_, _, _)
DeletedOf(p, lease, avoids) ==
  IF avoids = {} THEN 0
  ELSE LET av == CHOOSE x \in avoids : TRUE IN
       Deleted(DelayedProvisionTask(p, lease, av)) + DeletedOf(p, lease, avoids \ {av})

\* C19: a pass of process_delayed_provision_tasks deletes as many delayed
\* tasks of a pool and a lease time as it sent clones for that pool with
\* that lease time, and adds none; in a pass that finds no provisioning
\* template for a pool the tasks of the pool stay, the pool gets no
\* appliance and an unfulfilled pool stays unfulfilled.
C19_DeletedOnlyWhenCloned ==
  [][ReplayStep =>
       \A p \in Ids(pools) :
         /\ \A lease \in Leases :
              /\ \A av \in Avoids : Deleted(DelayedProvisionTask(p, lease, av)) >= 0
              /\ DeletedOf(p, lease, Avoids) = Cardinality(Cloned(p, lease))
         /\ PoolAppliances(appliances', p) \ PoolAppliances(appliances, p)
              = UNION {Cloned(p, lease) : lease \in Leases}
         /\ PossibleProvisioningTemplates(pools, p) = {} =>
              /\ \A d \in DelayedTasks : d.pool = p => Deleted(d) = 0
              /\ PoolAppliances(appliances', p) = PoolAppliances(appliances, p)
              /\ ~Fulfilled(appliances, pools, p) => ~Fulfilled(appliances', pools', p)
  ]_vars

\* A pass found no free provider and left both delayed tasks of the pool in
\* place; the pool has no appliance.
C19_Witness ==
  /\ last.task = "process_delayed_provision_tasks"
  /\ last.ids = {}
  /\ PossibleProvisioningTemplates(pools, 1) = {}
  /\ PoolAppliances(appliances, 1) = {}
  /\ BagCardinality(dpts) = 2

\* C20: the template of a clone made for a delayed task that names a
\* provider to avoid is on another provider whenever the pool has a
\* provisioning template on another provider: every appliance a pass
\* creates answers a task the pass deleted, one that names no provider to
\* avoid, or another provider than the template's, or a provider beside
\* which the pool has no provisioning template.
Elsewhere(p, avoid) ==
  {t \in PossibleProvisioningTemplates(pools, p) : templates[t].provider # avoid}

C20_AvoidsProvider ==
  [][ReplayStep =>
       \A a \in Ids(appliances') \ Ids(appliances) :
         \E d \in DelayedTasks :
           /\ Deleted(d) > 0
           /\ d.pool = appliances'[a].pool
           /\ \/ d.provider_to_avoid = None
              \/ templates[appliances'[a].template].provider # d.provider_to_avoid
              \/ Elsewhere(d.pool, d.provider_to_avoid) = {}
  ]_vars

\* The only delayed task named provider 2 to avoid, templates were usable on
\* both providers, and the clone was made from the template on provider 1.
C20_Witness ==
  /\ last.task = "process_delayed_provision_tasks"
  /\ last.ids = {1}
  /\ dpts = EmptyBag
  /\ templates[2].provider = 2
  /\ providers[1].free /\ providers[2].free
  /\ appliances[1].template = 1
  /\ \E m \in Pending : m.task = "clone_template_to_appliance" /\ m.id = 1

\* ---------------------------------------------------------------------------
\* A provisioning chain whose appliance is killed while the chain is running.
\* ---------------------------------------------------------------------------

NextVanish ==
  \/ clone_template_to_appliance
  \/ clone_template_to_appliance__clone_template
  \/ clone_template_to_appliance__wait_present
  \/ appliance_power_on
  \/ kill_request(1, FALSE)
  \/ kill_appliance
  \/ appliance_power_off
  \/ kill_appliance_delete
  \/ \E a \in ApplianceIds : VmSettle(a)

SpecVanish == InitChain /\ [][NextVanish]_vars

\* A step of the provisioning chain ran for an appliance whose record was
\* gone when the step started.
RanWithoutRecord ==
  /\ last' # last
  /\ last'.task \in ChainSteps
  /\ last'.id \notin Ids(appliances)

\* Nothing was sent by the step: every message of the queue was there before.
NothingSent == \A m \in BagToSet(queue') : CopiesIn(m, queue') <= CopiesIn(m, queue)

\* C21: a step of the provisioning chain (clone step, wait-present, power-on)
\* that runs after the appliance record was deleted returns without error
\* and sends nothing: no later step of the chain, no retry, and not the
\* chain's error handler kill_appliance.
C21_GoneEndsChain ==
  [][RanWithoutRecord => last'.out = "gone" /\ NothingSent]_vars

\* ---------------------------------------------------------------------------
\* Retry caps: a chain whose polling step is near the end of its retries.
\* ---------------------------------------------------------------------------

\* max_retries of the tasks that poll the provider inside a chain.
RetryCap(t) ==
  CASE t = "clone_template_to_appliance__wait_present" -> WaitPresentRetries
    [] t = "kill_appliance_delete" -> KillDeleteRetries
    [] t = CloneStep -> CloneRetries
    [] OTHER -> MaxRetries(t)

RetryingTasks ==
  PowerTasks \cup {"clone_template_to_appliance__wait_present",
                   "kill_appliance_delete", CloneStep}

\* The chain of appliance 1 as it stands when its polling step is sent: the
\* kill workflow at appliance_power_off, or the provisioning chain at
\* wait-present.
PollingChains ==
  { Msg(Sig("appliance_power_off", 1, None, FALSE, NoAux),
        << Sig("kill_appliance_delete", 1, None, FALSE, NoAux) >>, << >>),
    Msg(Sig("clone_template_to_appliance__wait_present", 1, None, FALSE, NoAux),
        << Sig("appliance_power_on", 1, None, FALSE, NoAux) >>,
        << CloneErrback(appliances[1], 1, None) >>) }

InitRetry ==
  /\ start = NotStarted
  /\ rpools = NoRows
  /\ surplus = NoSurplus
  /\ groups = [g \in Groups |-> [template_pool_size |-> 1]]
  /\ providers = [p \in Providers |-> Provider(TRUE, TRUE)]
  /\ templates = [t \in {1} |-> ReadyTemplate(1, 1, 1, 1, 1)]
  /\ appliances = [a \in {1} |->
                     [template |-> 1, pool |-> None, ready |-> FALSE,
                      marked |-> FALSE, power |-> "unknown", ip |-> FALSE,
                      leased_until |-> NoTime, datetime_leased |-> NoTime,
                      status_changed |-> 0]]
  /\ \E v \in VmStates : vms = [a \in ApplianceIds |-> IF a = 1 THEN v ELSE "absent"]
  /\ pools = NoRows
  /\ dpts = EmptyBag
  /\ tvms = [t \in 1 .. MaxTemplates |-> IF t = 1 THEN "template" ELSE "absent"]
  /\ \E c \in PollingChains : \E left \in {0, 1} : \E first \in BOOLEAN :
       queue = One([c EXCEPT !.retries = IF first THEN 0 ELSE RetryCap(c.task) - left])
  /\ nextId = 2
  /\ nextTpl = 2
  /\ now = 0
  /\ faults = 0
  /\ last = NoLast
  /\ hist = NoRows

NextRetry ==
  \/ clone_template_to_appliance__wait_present
  \/ appliance_power_on
  \/ kill_appliance
  \/ appliance_power_off
  \/ kill_appliance_delete
  \/ \E a \in ApplianceIds : VmSettle(a)

SpecRetry == InitRetry /\ [][NextRetry]_vars

\* The step is the invocation of request m, whose retries are used up, and
\* the invocation asked for a retry: self.retry raised instead.
RetriesExhausted(m) ==
  /\ m.task \in RetryingTasks
  /\ last'.task = m.task /\ last'.id = m.id
  /\ last'.out \in {"retry", "command", "error"}
  /\ Exhausted(m, RetryCap(m.task))
  /\ queue' = Fail(Take(m), m)

\* The tasks of the chain from m on: m's own task and its callbacks.
ChainFrom(m) == {m.task} \cup {m.cbs[i].task : i \in DOMAIN m.cbs}

ErrbacksSent(m) ==
  \A i \in DOMAIN m.ebs :
    \E x \in BagToSet(queue') :
      /\ x.task = m.ebs[i].task /\ x.id = m.ebs[i].id
      /\ CopiesIn(x, queue') > CopiesIn(x, queue)

\* C22: no request is re-sent beyond its task's max_retries, and when a
\* retrying step of a chain has used its retries up the chain is over: the
\* chain's error handler is sent, and neither the step nor a later step of
\* the chain is left to run for that appliance.
C22_RetriesEndChain ==
  [][/\ \A x \in BagToSet(queue') :
          x.task \in RetryingTasks => x.retries <= RetryCap(x.task)
     /\ \A m \in Pending :
          RetriesExhausted(m) =>
            /\ ErrbacksSent(m)
            /\ \A x \in BagToSet(queue') : ~(x.id = m.id /\ x.task \in ChainFrom(m))
  ]_vars

\* ---------------------------------------------------------------------------
\* Template existence: passes of retrieve_template_existence over templates
\* the provider does or does not report, referenced or not, old or fresh.
\* ---------------------------------------------------------------------------

InitExistence ==
  /\ start = Started
  /\ rpools = NoRows
  /\ surplus = NoSurplus
  /\ groups = [g \in Groups |-> [template_pool_size |-> 1]]
  /\ providers = [p \in Providers |-> Provider(TRUE, TRUE)]
  /\ now \in Times
  /\ \E ex \in [1 .. MaxTemplates -> BOOLEAN] :
     \E sc \in [1 .. MaxTemplates -> 0 .. now] :
       templates = [t \in 1 .. MaxTemplates |->
                      [ReadyTemplate(1, 1, t, 1, 1) EXCEPT
                         !.exists = ex[t], !.status_changed = sc[t]]]
  /\ tvms \in [1 .. MaxTemplates -> {"template", "absent"}]
  /\ \E n \in 0 .. 1 : \E tpl \in 1 .. MaxTemplates :
       appliances = [a \in 1 .. n |->
                       [template |-> tpl, pool |-> None, ready |-> TRUE,
                        marked |-> FALSE, power |-> "on", ip |-> TRUE,
                        leased_until |-> NoTime, datetime_leased |-> NoTime,
                        status_changed |-> 0]]
  /\ vms = [a \in ApplianceIds |-> IF a \in Ids(appliances) THEN "running" ELSE "absent"]
  /\ pools = NoRows
  /\ dpts = EmptyBag
  /\ queue = One(Loop("retrieve_template_existence"))
  /\ nextId = 2
  /\ nextTpl = MaxTemplates + 1
  /\ faults = 0
  /\ last = NoLast
  /\ hist = NoRows

NextExistence ==
  \/ retrieve_template_existence
  \/ Tick

SpecExistence == InitExistence /\ [][NextExistence]_vars

ExistencePass == last' # last /\ last'.task = "retrieve_template_existence"

\* What the provider reports of template t during the pass.
Reported(t) == tvms[t] # "absent"

\* C23: a pass of retrieve_template_existence deletes a template only if the
\* provider reported it absent, no appliance refers to it and its
\* status_changed is older than the grace period; a pass that ran to its end
\* leaves every surviving template with exists set to what the provider
\* reported, and a pass cut short by a raising probe leaves each survivor so
\* or as it was.
C23_TemplateDeletedOnlyWhenUnused ==
  [][ExistencePass =>
       /\ \A t \in Ids(templates) \ Ids(templates') :
            /\ ~Reported(t)
            /\ \A a \in Ids(appliances) : appliances[a].template # t
            /\ templates[t].status_changed < now - BROKEN_APPLIANCE_GRACE_TIME
       /\ \A t \in Ids(templates') :
            \/ templates'[t] = [templates[t] EXCEPT !.exists = Reported(t)]
            \/ last'.out = "raised" /\ templates'[t] = templates[t]
       /\ Ids(templates') \subseteq Ids(templates)
  ]_vars

\* A pass deleted the unreferenced, absent template 2 and kept template 1,
\* which an appliance refers to, with exists turned off.
C23_Witness ==
  /\ last.task = "retrieve_template_existence"
  /\ last.out = "returned"
  /\ last.ids = {2}
  /\ Ids(templates) = {1}
  /\ ~templates[1].exists
  /\ tvms[1] = "absent"
  /\ \E a \in Ids(appliances) : appliances[a].template = 1

\* ---------------------------------------------------------------------------
\* Deploy steps delivered while the VM they deploy may be there already.
\* ---------------------------------------------------------------------------

InitDeploy ==
  /\ start = NotStarted
  /\ rpools = NoRows
  /\ surplus = NoSurplus
  /\ groups = [g \in Groups |-> [template_pool_size |-> 1]]
  /\ providers = [p \in Providers |-> Provider(TRUE, TRUE)]
  /\ now = 0
  /\ templates = [t \in 1 .. 2 |->
                    IF t = 1 THEN Template(1, 1, 1, 1, 1)
                    ELSE ReadyTemplate(1, 1, 1, 1, 2)]
  /\ \E tv \in {"absent", "stopped", "running"} :
       tvms = [t \in 1 .. MaxTemplates |-> IF t = 1 THEN tv ELSE "template"]
  /\ appliances = [a \in {1} |->
                     [template |-> 2, pool |-> None, ready |-> FALSE,
                      marked |-> FALSE, power |-> "unknown", ip |-> FALSE,
                      leased_until |-> NoTime, datetime_leased |-> NoTime,
                      status_changed |-> 0]]
  /\ \E v \in {"absent", "stopped", "running"} :
       vms = [a \in ApplianceIds |-> IF a = 1 THEN v ELSE "absent"]
  /\ pools = NoRows
  /\ dpts = EmptyBag
  /\ queue = StartChain(StartChain(EmptyBag, CloneChain(1),
                                   << CloneErrback(appliances[1], 1, None) >>),
                        TemplateChain(1), TemplateErrback(1))
  /\ nextId = 2
  /\ nextTpl = 3
  /\ faults = 0
  /\ last = NoLast
  /\ hist = [t \in {1} |-> << >>]

NextDeploy ==
  \/ clone_template_to_appliance__clone_template
  \/ clone_template_to_appliance__wait_present
  \/ prepare_template_deploy
  \/ prepare_template_configure
  \/ prepare_template_delete_on_error
  \/ kill_appliance

SpecDeploy == InitDeploy /\ [][NextDeploy]_vars

\* C24: a clone step that runs while the provider reports a VM of the
\* appliance's name issues no deploy_template (the VM stays as it is, or is
\* deleted when the step puts the request aside), and prepare_template_deploy
\* that runs while the template's VM is created returns without touching it;
\* a VM comes out of a deploy step only where none was.
C24_NoDeployOverExistingVm ==
  [][/\ \A a \in Ids(appliances) :
          (last'.task = CloneStep /\ last'.id = a /\ Exists(vms[a])) =>
            vms'[a] \in {vms[a], "absent"}
     /\ \A t \in Ids(templates) :
          (last'.task = "prepare_template_deploy" /\ last'.id = t /\ IsCreated(tvms, t)) =>
            /\ tvms' = tvms
            /\ last'.out = "returned"
  ]_vars

\* The clone step returned with the running VM it found left running, and
\* prepare_template_deploy found the VM a failed deploy had left behind.
C24_Witness ==
  /\ vms[1] = "running"
  /\ tvms[1] = "stopped"
  /\ hist[1] = << "prepare_template_deploy" >>
  /\ \E m \in Pending :
       m.task = "clone_template_to_appliance__wait_present" /\ m.id = 1
  /\ \E m \in Pending : m.task = "prepare_template_configure" /\ m.id = 1

\* ---------------------------------------------------------------------------
\* A provisioning chain that fails at its last step, and the error handler.
\* ---------------------------------------------------------------------------

InitReplace ==
  /\ start = NotStarted
  /\ rpools = NoRows
  /\ surplus = NoSurplus
  /\ groups = [g \in Groups |-> [template_pool_size |-> 1]]
  /\ providers = [p \in Providers |-> Provider(TRUE, TRUE)]
  /\ now = 0
  /\ \E other \in BOOLEAN :
       templates = [t \in 1 .. 2 |->
                      [ReadyTemplate(1, 1, 1, 1, t) EXCEPT !.exists = (t = 1 \/ other)]]
  /\ tvms = [t \in 1 .. MaxTemplates |-> "template"]
  /\ \E lease \in Leases : \E pooled \in BOOLEAN :
       /\ pools = IF pooled
                  THEN [p \in {1} |-> [group |-> 1, total_count |-> 1, version |-> 1,
                                       date |-> 1, lease |-> lease]]
                  ELSE NoRows
       /\ appliances = [a \in {1} |->
                          [template |-> 1, pool |-> IF pooled THEN 1 ELSE None,
                           ready |-> FALSE, marked |-> FALSE, power |-> "unknown",
                           ip |-> FALSE, leased_until |-> NoTime,
                           datetime_leased |-> NoTime, status_changed |-> 0]]
       /\ \E left \in {0, 1} :
            queue = One([Msg(Sig("appliance_power_on", 1, None, FALSE, NoAux), << >>,
                             << CloneErrback(appliances[1], 1, lease) >>)
                           EXCEPT !.retries = PowerOnRetries - left])
  /\ \E v \in {"stopped", "starting", "running"} :
       vms = [a \in ApplianceIds |-> IF a = 1 THEN v ELSE "absent"]
  /\ dpts = EmptyBag
  /\ nextId = 2
  /\ nextTpl = 3
  /\ faults = 0
  /\ last = NoLast
  /\ hist = NoRows

NextReplace ==
  \/ appliance_power_on
  \/ kill_appliance
  \/ appliance_power_off
  \/ kill_appliance_delete
  \/ replace_clone_to_pool
  \/ \E a \in ApplianceIds : VmSettle(a)

SpecReplace == InitReplace /\ [][NextReplace]_vars

\* Ready, existing templates of the failed appliance's group, version and
\* date, other than its own template 1.
OtherTemplates ==
  {t \in Ids(templates) \ {1} :
     /\ templates[t].ready /\ templates[t].exists
     /\ templates[t].group = templates[1].group
     /\ templates[t].version = templates[1].version
     /\ templates[t].date = templates[1].date}

\* The step is replace_clone_to_pool having made appliance a.
Replaced(a) ==
  /\ last'.task = "replace_clone_to_pool" /\ last'.out = "returned"
  /\ a = nextId /\ nextId' = a + 1

\* C25: when the provisioning chain of appliance 1 has failed, the error
\* handler powers the appliance off and deletes it, and then, for a pool's
\* appliance, makes exactly one replacement: one new appliance of the same
\* pool, cloned with the same lease minutes from another ready, existing
\* template of the same group, version and date, or from the failed
\* appliance's template when there is no other; for an appliance without a
\* pool nothing is made.
C25_OneReplacement ==
  /\ [](nextId <= 3)
  /\ [](pools = NoRows =>
          /\ nextId = 2
          /\ \A m \in Pending : m.task # "replace_clone_to_pool")
  /\ [][\A a \in ApplianceIds :
          Replaced(a) =>
            /\ 1 \notin Ids(appliances)
            /\ vms[1] = "absent"
            /\ appliances'[a].pool = 1
            /\ appliances'[a].template \in
                 (IF OtherTemplates # {} THEN OtherTemplates ELSE {1})
            /\ \E m \in BagToSet(queue') :
                 /\ m.task = "clone_template_to_appliance" /\ m.id = a
                 /\ m.lease = pools[1].lease
                 /\ CopiesIn(m, queue') > CopiesIn(m, queue)
     ]_vars

\* ---------------------------------------------------------------------------
\* Waiting for the provider: the tasks that wait for a VM to stop, for an IP
\* address and for the web UI.
\* ---------------------------------------------------------------------------

SeqOfTasks(sigs) == [i \in DOMAIN sigs |-> sigs[i].task]

InitWait ==
  /\ start = NotStarted
  /\ rpools = NoRows
  /\ surplus = NoSurplus
  /\ groups = [g \in Groups |-> [template_pool_size |-> 1]]
  /\ providers = [p \in Providers |-> Provider(TRUE, TRUE)]
  /\ now = 0
  /\ templates = [t \in 1 .. 2 |->
                    IF t = 1 THEN Template(1, 1, 1, 1, 1)
                    ELSE ReadyTemplate(1, 1, 1, 1, 2)]
  /\ tvms = [t \in 1 .. MaxTemplates |-> IF t = 1 THEN "running" ELSE "template"]
  /\ \E pw \in {"unknown", "on"} :
       appliances = [a \in {1} |->
                       [template |-> 2, pool |-> None, ready |-> FALSE,
                        marked |-> FALSE, power |-> pw, ip |-> FALSE,
                        leased_until |-> NoTime, datetime_leased |-> NoTime,
                        status_changed |-> 0]]
  /\ \E v \in {"starting", "running"} :
       vms = [a \in ApplianceIds |-> IF a = 1 THEN v ELSE "absent"]
  /\ pools = NoRows
  /\ dpts = EmptyBag
  /\ queue = Send(Send(StartChain(EmptyBag,
                                  SubSeq(TemplateChain(1), 4, 5), TemplateErrback(1)),
                       Sig("retrieve_appliance_ip", 1, None, FALSE, NoAux)),
                  Sig("wait_appliance_ready", 1, None, FALSE, NoAux))
  /\ nextId = 2
  /\ nextTpl = 3
  /\ faults = 0
  /\ last = NoLast
  /\ hist = [t \in {1} |-> SeqOfTasks(SubSeq(TemplateChain(1), 1, 3))]

NextWait ==
  \/ prepare_template_poweroff
  \/ prepare_template_poweroff_stop
  \/ prepare_template_poweroff_wait
  \/ prepare_template_finish
  \/ prepare_template_delete_on_error
  \/ retrieve_appliance_ip
  \/ wait_appliance_ready
  \/ \E t \in 1 .. MaxTemplates : TemplateVmSettle(t)
  \/ \E a \in ApplianceIds : VmSettle(a)

SpecWait == InitWait /\ [][NextWait]_vars

\* A worker is held by the invocation of request m, which waits inside the
\* provider call for the VM to settle.
HeldWaiting(m) ==
  /\ m.task = "prepare_template_poweroff"
  /\ m.flag
  /\ tvms[m.id] = "stopping"

\* C26: no invocation holds a worker while it waits for the provider to
\* converge (a VM reaching its state, a power-off finishing, an IP address,
\* the web UI): an invocation that finds the awaited condition unmet ends, and
\* the wait is a re-invocation scheduled for later.
C26_NoWorkerHeldWaiting == \A m \in Pending : ~HeldWaiting(m)

\* ---------------------------------------------------------------------------
\* retrieve_cfme_appliance_version(template_name)
\* ---------------------------------------------------------------------------

MaxBody == 6

DigitChars == {"0", "1", "5"}

\* int() of one digit character.
Digit(ch) == CASE ch = "0" -> 0 [] ch = "1" -> 1 [] OTHER -> 5

\* VERSION_REGEXPS, in order; "d" is (\d) and "dd" is (\d{2}).
VERSION_REGEXPS ==
  << << "c", "f", "m", "e", "-", "d", "d", "d", "d", "-" >>,
     << "c", "f", "m", "e", "-", "d", "d", "d", "-", "d", "-" >>,
     << "c", "f", "m", "e", "-", "d", "d", "d", "dd", "-" >> >>

\* The characters token i of the regexp takes, and where it starts when the
\* match starts at p.
Width(tok) == IF tok = "dd" THEN 2 ELSE 1

RECURSIVE StartOf(_, _, _)
StartOf(re, i, p) == IF i = 1 THEN p ELSE StartOf(re, i - 1, p) + Width(re[i - 1])

TokenMatches(re, i, s, p) ==
  LET at == StartOf(re, i, p)
  IN /\ at + Width(re[i]) - 1 <= Len(s)
     /\ CASE re[i] = "d" -> s[at] \in DigitChars
          [] re[i] = "dd" -> s[at] \in DigitChars /\ s[at + 1] \in DigitChars
          [] OTHER -> s[at] = re[i]

MatchesAt(re, s, p) == \A i \in DOMAIN re : TokenMatches(re, i, s, p)

\* regexp.search(template_name): the leftmost match, 0 for None.
Search(re, s) ==
  IF \E p \in DOMAIN s : MatchesAt(re, s, p)
  THEN CHOOSE p \in DOMAIN s :
         MatchesAt(re, s, p) /\ \A r \in 1 .. p - 1 : ~MatchesAt(re, s, r)
  ELSE 0

ToInt_FirstDigit(ds) == Digit(ds[1])

\* int(group)
ToInt(ds) == IF Len(ds) = 1 THEN Digit(ds[1]) ELSE 10 * Digit(ds[1]) + Digit(ds[2])

\* match.groups(), each through int(); the dotted string is the sequence of
\* these numbers.
MatchGroups(re, s, p) ==
  LET g == SelectSeq([i \in DOMAIN re |-> i], LAMBDA i : re[i] \in {"d", "dd"})
  IN [k \in DOMAIN g |->
        ToInt(SubSeq(s, StartOf(re, g[k], p), StartOf(re, g[k], p) + Width(re[g[k]]) - 1))]

NoVersion == << >>

RECURSIVE FirstMatch(_, _)
FirstMatch(s, n) ==
  IF n > Len(VERSION_REGEXPS) THEN NoVersion
  ELSE IF Search(VERSION_REGEXPS[n], s) # 0
       THEN MatchGroups(VERSION_REGEXPS[n], s, Search(VERSION_REGEXPS[n], s))
       ELSE FirstMatch(s, n + 1)

retrieve_cfme_appliance_version(template_name) == FirstMatch(template_name, 1)

\* Template names: something before, "cfme-" or a near miss, up to MaxBody
\* digits and dashes, something after.
Bodies == UNION {[1 .. k -> DigitChars \cup {"-"}] : k \in 0 .. MaxBody}

Prefixes == {<< "c", "f", "m", "e", "-" >>, << "c", "f", "m", "-" >>, << >>}

TemplateNames ==
  {pre \o pf \o body \o post :
     pre \in {<< >>, << "x" >>}, pf \in Prefixes, body \in Bodies,
     post \in {<< >>, << "x" >>}}

InitVersion ==
  /\ start = NotStarted
  /\ rpools = NoRows
  /\ surplus = NoSurplus
  /\ groups = [g \in Groups |-> [template_pool_size |-> 1]]
  /\ providers = [p \in Providers |-> Provider(TRUE, TRUE)]
  /\ now = 0
  /\ \E name \in TemplateNames :
       templates = [t \in {1} |-> Template(1, 1, NoVersion, 1, name)]
  /\ tvms = [t \in 1 .. MaxTemplates |-> "absent"]
  /\ appliances = NoRows
  /\ vms = [a \in ApplianceIds |-> "absent"]
  /\ pools = NoRows
  /\ dpts = EmptyBag
  /\ queue = EmptyBag
  /\ nextId = 1
  /\ nextTpl = 2
  /\ faults = 0
  /\ last = NoLast
  /\ hist = NoRows

\* template_version = retrieve_cfme_appliance_version(template_name)
version_of_template ==
  /\ last = NoLast
  /\ templates' = [templates EXCEPT
                     ![1].version = retrieve_cfme_appliance_version(templates[1].original)]
  /\ last' = Did("retrieve_cfme_appliance_version", 1, None, "returned", {})
  /\ UNCHANGED <<start, rpools, surplus, groups, providers, appliances, pools, dpts, vms, tvms, queue,
                 nextId, nextTpl, now, faults, hist>>

NextVersion == version_of_template

SpecVersion == InitVersion /\ [][NextVersion]_vars

\* The name reads x ++ "cfme-" ++ form ++ y, with form of the given shape:
\* "D" a digit, "-" a dash.
HasForm(name, k, shape) ==
  /\ k + 4 + Len(shape) <= Len(name)
  /\ SubSeq(name, k, k + 4) = << "c", "f", "m", "e", "-" >>
  /\ \A i \in DOMAIN shape :
       IF shape[i] = "D" THEN name[k + 4 + i] \in DigitChars ELSE name[k + 4 + i] = "-"

Four == << "D", "D", "D", "D", "-" >>
ThreeOne == << "D", "D", "D", "-", "D", "-" >>
Five == << "D", "D", "D", "D", "D", "-" >>

\* The number a digit character stands for, written out.
NumberOf(ch) == IF ch = "0" THEN 0 ELSE IF ch = "1" THEN 1 ELSE 5

\* C27: the version taken from a template name: "cfme-" with four digits and
\* a dash gives the four digits; "cfme-DDD-D-" gives its four digits; "cfme-"
\* with five digits and a dash gives the first three digits and the last two
\* read as one number, without a leading zero; a name of none of these forms
\* gives no version.
C27_VersionFromName ==
  [][\A name \in {templates[1].original} : \A v \in {templates'[1].version} :
       /\ \A k \in DOMAIN name :
            /\ HasForm(name, k, Four) =>
                 v = [i \in 1 .. 4 |-> NumberOf(name[k + 4 + i])]
            /\ HasForm(name, k, ThreeOne) =>
                 v = << NumberOf(name[k + 5]), NumberOf(name[k + 6]),
                        NumberOf(name[k + 7]), NumberOf(name[k + 9]) >>
            /\ HasForm(name, k, Five) =>
                 v = << NumberOf(name[k + 5]), NumberOf(name[k + 6]),
                        NumberOf(name[k + 7]),
                        10 * NumberOf(name[k + 8]) + NumberOf(name[k + 9]) >>
       /\ (\A k \in DOMAIN name : \A shape \in {Four, ThreeOne, Five} :
             ~HasForm(name, k, shape)) => v = NoVersion
  ]_vars

\* "xcfme-51101-" was read as 5.1.1.1.
C27_Witness ==
  /\ last.task = "retrieve_cfme_appliance_version"
  /\ templates[1].original = << "x", "c", "f", "m", "e", "-", "5", "1", "1", "0", "1", "-" >>
  /\ templates[1].version = << 5, 1, 1, 1 >>

\* ---------------------------------------------------------------------------
\* utils/async.py: ResultsPool and ResultsThreadPool (_ResultsPoolMixin).
\* ---------------------------------------------------------------------------

MaxPools == 2
MaxResults == 3

NewResults_Shared(rp) == IF Ids(rp) = {} THEN << >> ELSE rp[Cardinality(Ids(rp))].results

\* __init__: self.results = list()
NewResults(rp) == << >>

\* pool_class(...): a pool object comes into being.
NewPool(rp) ==
  [results |-> NewResults(rp), submitted |-> 0, closed |-> FALSE,
   manager |-> FALSE, bound |-> FALSE]

ResultsPool_init ==
  /\ Cardinality(Ids(rpools)) < MaxPools
  /\ rpools' = Put(rpools, Cardinality(Ids(rpools)) + 1, NewPool(rpools))
  /\ last' = Did("__init__", Cardinality(Ids(rpools)) + 1, None, "returned", {})
  /\ UNCHANGED <<start, surplus, groups, providers, templates, appliances, pools, dpts, vms, tvms,
                 queue, nextId, nextTpl, now, faults, hist>>

\* apply_async / map_async: the result object Pool hands back is appended.
\* submitted counts the calls made on the pool.
Submit(task, p) ==
  /\ ~rpools[p].closed
  /\ Len(rpools[p].results) < MaxResults
  /\ rpools' = [rpools EXCEPT ![p].results = Append(@, "pending"),
                              ![p].submitted = @ + 1]
  /\ last' = Did(task, p, None, "returned", {})
  /\ UNCHANGED <<start, surplus, groups, providers, templates, appliances, pools, dpts, vms, tvms,
                 queue, nextId, nextTpl, now, faults, hist>>

apply_async == \E p \in Ids(rpools) : Submit("apply_async", p)

map_async == \E p \in Ids(rpools) : Submit("map_async", p)

\* A submitted call finishes in a worker of the pool: it returned or raised.
ResultReady ==
  \E p \in Ids(rpools) : \E i \in DOMAIN rpools[p].results : \E how \in {"ok", "failed"} :
    /\ rpools[p].results[i] = "pending"
    /\ rpools' = [rpools EXCEPT ![p].results[i] = how]
    /\ last' = NoLast
    /\ UNCHANGED <<start, surplus, groups, providers, templates, appliances, pools, dpts, vms, tvms,
                   queue, nextId, nextTpl, now, faults, hist>>

\* AsyncResult.successful(): asserts that the result is ready.
ResultSuccessful(r) ==
  CASE r = "ok" -> "True" [] r = "failed" -> "False" [] OTHER -> "AssertionError"

\* The successful property.
Successful(results) ==
  IF results = << >> THEN "None"
  ELSE IF \E i \in DOMAIN results : ResultSuccessful(results[i]) = "AssertionError"
       THEN "AssertionError"
       ELSE IF \A i \in DOMAIN results : ResultSuccessful(results[i]) = "True"
            THEN "True" ELSE "False"

successful ==
  \E p \in Ids(rpools) :
    /\ last' = Did("successful", p, None, Successful(rpools[p].results), {})
    /\ UNCHANGED <<start, rpools, surplus, groups, providers, templates, appliances, pools, dpts,
                   vms, tvms, queue, nextId, nextTpl, now, faults, hist>>

InitPool ==
  /\ start = NotStarted
  /\ rpools = NoRows
  /\ surplus = NoSurplus
  /\ groups = [g \in Groups |-> [template_pool_size |-> 1]]
  /\ providers = [p \in Providers |-> Provider(TRUE, TRUE)]
  /\ templates = NoRows
  /\ appliances = NoRows
  /\ pools = NoRows
  /\ dpts = EmptyBag
  /\ vms = [a \in ApplianceIds |-> "absent"]
  /\ tvms = [t \in 1 .. MaxTemplates |-> "absent"]
  /\ queue = EmptyBag
  /\ nextId = 1
  /\ nextTpl = 1
  /\ now = 0
  /\ faults = 0
  /\ last = NoLast
  /\ hist = NoRows

NextPool ==
  \/ ResultsPool_init
  \/ apply_async
  \/ map_async
  \/ ResultReady
  \/ successful

SpecPool == InitPool /\ [][NextPool]_vars

\* C28: a pool that has just been made has no results, whatever other pools
\* hold; every apply_async and map_async call adds one result to the pool it
\* is made on and none to another, so a pool holds as many results as calls
\* were made on it; successful is None for a pool without results and
\* otherwise True exactly when every result of the pool succeeded.
C28_ResultsPerPool ==
  /\ [](\A p \in Ids(rpools) : Len(rpools[p].results) = rpools[p].submitted)
  /\ [][/\ \A p \in Ids(rpools') \ Ids(rpools) : rpools'[p].results = << >>
        /\ \A p \in Ids(rpools) :
             /\ p \in Ids(rpools')
             /\ Len(rpools'[p].results) =
                  Len(rpools[p].results) +
                    (IF last'.task \in {"apply_async", "map_async"} /\ last'.id = p
                     THEN 1 ELSE 0)
             /\ SubSeq(rpools'[p].results, 1, Len(rpools[p].results)) # rpools[p].results
                  => last'.task = "none"
        /\ \A p \in Ids(rpools) :
             (last'.task = "successful" /\ last'.id = p) =>
               /\ rpools[p].results = << >> <=> last'.out = "None"
               /\ rpools[p].results # << >> =>
                    (last'.out = "True" <=>
                       \A i \in DOMAIN rpools[p].results : rpools[p].results[i] = "ok")
     ]_vars

\* A second pool was made while the first held three results, one call was
\* made on it, and successful was read on the first with all its results
\* succeeded.
C28_Witness ==
  /\ Ids(rpools) = {1, 2}
  /\ Len(rpools[1].results) = 3
  /\ Len(rpools[2].results) = 1
  /\ last.task = "successful" /\ last.id = 1 /\ last.out = "True"

\* ---------------------------------------------------------------------------
\* poke_trackerbot and poke_providers over providers of every configuration.
\* ---------------------------------------------------------------------------

InitTrackerbot ==
  /\ start = Started
  /\ rpools = NoRows
  /\ surplus = NoSurplus
  /\ groups = [g \in Groups |-> [template_pool_size |-> 1]]
  /\ \E sp \in [Providers -> BOOLEAN] : \E use \in [Providers -> BOOLEAN] :
     \E img \in [Providers -> BOOLEAN] :
       providers = [p \in Providers |->
                      [Provider(TRUE, TRUE) EXCEPT !.sprout = sp[p],
                                                   !.use_for_sprout = use[p],
                                                   !.image = img[p]]]
  /\ templates = NoRows
  /\ appliances = NoRows
  /\ pools = NoRows
  /\ dpts = EmptyBag
  /\ vms = [a \in ApplianceIds |-> "absent"]
  /\ tvms = [t \in 1 .. MaxTemplates |-> "absent"]
  /\ queue = One(Loop("poke_providers")) (+) One(Loop("poke_trackerbot"))
  /\ nextId = 1
  /\ nextTpl = 1
  /\ now = 0
  /\ faults = 0
  /\ last = NoLast
  /\ hist = NoRows

NextTrackerbot ==
  \/ poke_providers
  \/ poke_trackerbot_run
  \/ create_appliance_template
  \/ create_appliance_template_save

SpecTrackerbot == InitTrackerbot /\ [][NextTrackerbot]_vars

\* A create_appliance_template message the step has sent.
CreateSent(m) ==
  /\ m.task = "create_appliance_template"
  /\ CopiesIn(m, queue') > CopiesIn(m, queue)

\* C29: poke_trackerbot sends create_appliance_template for a provider, group
\* and template name only if the provider is marked working, its data has the
\* "sprout" section and use_for_sprout on, no Template row is there for the
\* three, and the provider holds the source image; and after a pass of
\* poke_providers each provider is marked working exactly if its list_vm
\* probe succeeded.
C29_CreateOnlyWhenEligible ==
  [][/\ last'.task = "poke_trackerbot" =>
          \A m \in BagToSet(queue') :
            CreateSent(m) =>
              /\ providers[m.id].working
              /\ providers[m.id].sprout
              /\ providers[m.id].use_for_sprout
              /\ providers[m.id].image
              /\ \A t \in Ids(templates) :
                   ~(/\ templates[t].provider = m.id
                     /\ templates[t].group = m.aux[1]
                     /\ templates[t].original = m.aux[2])
     /\ (last'.task = "poke_providers" /\ last'.out = "returned") =>
          \A p \in Providers :
            providers'[p] = [providers[p] EXCEPT !.working = (p \in last'.ids)]
  ]_vars

\* A pass sent the message for provider 1 alone, provider 2 having the
\* section, the flag and the image but being marked not working by an
\* earlier pass of poke_providers.
C29_Witness ==
  /\ last.task = "poke_trackerbot"
  /\ last.ids = {1}
  /\ ~providers[2].working
  /\ providers[2].sprout /\ providers[2].use_for_sprout /\ providers[2].image
  /\ \E m \in Pending : m.task = "create_appliance_template" /\ m.id = 1

\* A message of the given task the step has sent for the first time (not a
\* retry of itself).
FirstSent(task) ==
  {m \in BagToSet(queue') :
     /\ m.task = task /\ m.retries = 0
     /\ CopiesIn(m, queue') > CopiesIn(m, queue)}

\* C30: the kill workflow runs power-off, delete and the replacement in that
\* order: kill_appliance_delete is sent only by an appliance_power_off that
\* returned having seen the VM stopped or the record gone; the record and the
\* VM are deleted only by kill_appliance_delete; replace_clone_to_pool is
\* sent only by a kill_appliance_delete that returned; and when power-off
\* has used its retries up the workflow is over: nothing of it is left that
\* would delete the record or the VM.
C30_KillWorkflowInOrder ==
  [][/\ \A m \in FirstSent("kill_appliance_delete") :
          /\ last'.task = "appliance_power_off" /\ last'.id = m.id
          /\ \/ last'.out = "returned" /\ vms[m.id] = "stopped"
             \/ last'.out = "gone" /\ m.id \notin Ids(appliances)
     /\ \A a \in Ids(appliances) :
          (a \notin Ids(appliances') \/ (Exists(vms[a]) /\ ~Exists(vms'[a]))) =>
            /\ last'.task = "kill_appliance_delete" /\ last'.id = a
            /\ last'.out = "returned"
     /\ \A m \in FirstSent("replace_clone_to_pool") :
          /\ last'.task = "kill_appliance_delete"
          /\ last'.out \in {"returned", "gone"}
     /\ \A m \in Pending :
          (m.task = "appliance_power_off" /\ RetriesExhausted(m)) =>
            \A x \in BagToSet(queue') :
              ~(x.id = m.id /\ x.task \in {"appliance_power_off", "kill_appliance_delete"})
  ]_vars

\* ------------------------------------------------- collecting stalled rows
\* Two appliances of any readiness, flag, power state and age meet one
\* delete_nonexistent_appliances loop; the clock stands at MaxTime, so a row
\* whose status changed at 0 is past the grace time and one at MaxTime is not.
InitCollect ==
  /\ start = Started
  /\ rpools = NoRows
  /\ surplus = NoSurplus
  /\ groups = [g \in Groups |-> [template_pool_size |-> 1]]
  /\ providers = [p \in Providers |-> Provider(TRUE, TRUE)]
  /\ templates = [t \in {1} |-> ReadyTemplate(1, 1, 1, 1, 1)]
  /\ tvms = [t \in 1 .. MaxTemplates |-> IF t = 1 THEN "template" ELSE "absent"]
  /\ appliances \in [{1, 2} -> [template : {1}, pool : {None}, ready : BOOLEAN,
                                marked : BOOLEAN, power : {"on", "orphaned"},
                                ip : {TRUE}, leased_until : {NoTime},
                                datetime_leased : {NoTime}, status_changed : Times]]
  /\ vms = [a \in ApplianceIds |-> IF a \in {1, 2} THEN "running" ELSE "absent"]
  /\ pools = NoRows
  /\ dpts = EmptyBag
  /\ queue = One(Loop("delete_nonexistent_appliances"))
  /\ nextId = 3
  /\ nextTpl = 2
  /\ now = MaxTime
  /\ faults = 0
  /\ last = NoLast
  /\ hist = NoRows

NextCollect ==
  \/ delete_nonexistent_appliances
  \/ kill_appliance
  \/ appliance_power_off
  \/ kill_appliance_delete
  \/ \E a \in ApplianceIds : VmSettle(a)

SpecCollect == InitCollect /\ [][NextCollect]_vars

PastGrace(a) == appliances[a].status_changed < ExpirationTime

KillsSent(a) == CopiesIn(KillMsg(a), queue') - CopiesIn(KillMsg(a), queue)

\* C31: a pass of delete_nonexistent_appliances that ran to its end has
\* killed every row it found unready and unflagged past the grace time, and
\* has killed again every row it found flagged for deletion past the grace
\* time, the flag standing again once kill has run; whatever the outcome of
\* the pass, a row whose status changed within the grace time is left as it
\* was by the second and third loop and no kill is sent for it.
C31_StalledCollected ==
  [][last'.task = "delete_nonexistent_appliances" =>
       \A a \in Ids(appliances) \ Orphans(appliances) :
         /\ (last'.out = "returned" /\ PastGrace(a)
               /\ (appliances[a].marked \/ ~appliances[a].ready)) =>
              /\ a \in Ids(appliances')
              /\ appliances'[a] = [appliances[a] EXCEPT !.marked = TRUE]
              /\ KillsSent(a) >= 1
         /\ ~PastGrace(a) =>
              /\ a \in Ids(appliances')
              /\ appliances'[a] = appliances[a]
              /\ KillsSent(a) = 0
  ]_vars

C31_Witness ==
  /\ last.task = "delete_nonexistent_appliances" /\ last.out = "returned"
  /\ \E a \in Ids(appliances) : \E b \in Ids(appliances) :
       /\ appliances[a].marked /\ appliances[a].status_changed < ExpirationTime
       /\ CopiesIn(KillMsg(a), queue) >= 1
       /\ ~appliances[b].ready /\ ~appliances[b].marked
       /\ appliances[b].status_changed = now
       /\ CopiesIn(KillMsg(b), queue) = 0

\* ------------------------------------------------- quota errors, no pool
\* The clone step's own requests the step has added to the queue.
CloneStepsSent ==
  {x \in BagToSet(queue') :
     x.task = CloneStep /\ CopiesIn(x, queue') > CopiesIn(x, queue)}

ShepherdKill(a) ==
  Msg(Sig("kill_appliance", a, DefaultMinutes, FALSE, NoAux), << >>, << >>)

PutAside(a) ==
  /\ last'.task = CloneStep /\ last'.id = a
  /\ a \in Ids(appliances) /\ a \notin Ids(appliances')

\* C33: every DelayedProvisionTask in the table names a pool, and the clone
\* step deletes an appliance's row only when the appliance is attached to a
\* pool, whether the error was OSOverLimit or a generic error whose message
\* holds "quota" or "limit".
C33_DeferredOnlyWithPool ==
  /\ [](\A d \in BagToSet(dpts) : d.pool # None)
  /\ [][\A a \in Ids(appliances) : PutAside(a) => appliances[a].pool # None]_vars

\* ------------------------------------------------ the clone step's retry
\* C34: every request for the clone step that is in the queue, a retried one
\* included, carries both arguments of the original invocation, the
\* appliance id and the lease minutes, so that a worker can call the task
\* with it.
C34_RetryKeepsArguments ==
  \A m \in Pending : (m.task = CloneStep /\ m.retries > 0) => m.argsok

\* ------------------------------------------------- one poller per request
PollingTasks ==
  {"clone_template_to_appliance__wait_present", "appliance_power_on",
   "appliance_power_off", "appliance_suspend"}

\* The requests for task t on appliance a that are in the queue q.
Pollers(q, t, a) ==
  LET mine == {m \in BagToSet(q) : m.task = t /\ m.id = a}
  IN BagCardinality([m \in mine |-> q[m]])

\* C35: an invocation of a polling task takes its own request from the queue
\* and puts back at most one request for the same task and appliance, so the
\* number of requests of one polling task for one appliance never grows.
C35_OneRetryPerInvocation ==
  [][\A t \in PollingTasks : \A a \in ApplianceIds :
       (last'.task = t /\ last'.id = a) =>
         Pollers(queue', t, a) <= Pollers(queue, t, a)
  ]_vars

\* ------------------------------------- the shepherd beside a pool request
\* free_appliance_shepherd for a group with more unattached appliances than
\* its target, as two steps of one worker: the pass reads the appliances of
\* the kept generation into its list and picks the surplus from it
\* (appliances.extend(...), appliances.sort(...), the slice), and later calls
\* Appliance.kill on the rows of that list and on the older generation's
\* rows, and the finally clause sends the next pass.  Other workers' tasks
\* run between the two steps.
free_appliance_shepherd_read ==
  /\ surplus.pc = "idle"
  /\ BagIn(Loop("free_appliance_shepherd"), queue)
  /\ \E grp \in Groups :
       LET gen == Generation(templates, grp)
           cur == ShepherdAppliances(appliances, PossibleTemplates(templates, grp, gen))
           size == groups[grp].template_pool_size
       IN /\ gen.by # "none"
          /\ Cardinality(cur) > size
          /\ \E K \in SurplusKills(appliances, cur, Cardinality(cur) - size) :
               surplus' = [pc |-> "killing", grp |-> grp, ids |-> K]
          /\ last' = Did("free_appliance_shepherd", grp, None, "read", {})
  /\ queue' = Take(Loop("free_appliance_shepherd"))
  /\ UNCHANGED <<start, rpools, groups, providers, templates, appliances, pools, dpts,
                 vms, tvms, nextId, nextTpl, now, faults, hist>>

free_appliance_shepherd_kill ==
  /\ surplus.pc = "killing"
  /\ LET grp == surplus.grp
         old == OldAppliances(appliances, templates, grp, Generation(templates, grp))
         killed == surplus.ids \cup old
     IN /\ Room(queue, Cardinality(killed))
        /\ appliances' = MarkAll(appliances, killed)
        /\ queue' = Reschedule(SendKills(queue, killed), "free_appliance_shepherd", FALSE)
        /\ last' = Did("free_appliance_shepherd", grp, None, "trimmed", killed)
  /\ surplus' = NoSurplus
  /\ UNCHANGED <<start, rpools, groups, providers, templates, pools, dpts, vms, tvms,
                 nextId, nextTpl, now, faults, hist>>

\* Three ready spare appliances of either generation and of any age, a pool
\* of one or two that has not been requested yet, and the shepherd's loop.
InitRace ==
  /\ start = Started
  /\ rpools = NoRows
  /\ surplus = NoSurplus
  /\ groups \in [Groups -> [template_pool_size : {1, 2}]]
  /\ providers = [p \in Providers |-> Provider(TRUE, TRUE)]
  /\ templates = [t \in {1, 2} |-> ReadyTemplate(t, 1, t, t, 1)]
  /\ appliances \in [1 .. MaxAppliances ->
                       [template : {1, 2}, pool : {None}, ready : {TRUE},
                        marked : {FALSE}, power : {"on"}, ip : {TRUE},
                        leased_until : {NoTime}, datetime_leased : {NoTime},
                        status_changed : Times]]
  /\ vms = [a \in ApplianceIds |-> "running"]
  /\ \E total \in {1, 2} :
       pools = [p \in {1} |-> [group |-> 1, total_count |-> total, version |-> None,
                               date |-> None, lease |-> None]]
  /\ dpts = EmptyBag
  /\ tvms = [t \in {1, 2} |-> "template"]
  /\ queue = One(Loop("free_appliance_shepherd"))
  /\ nextId = MaxAppliances + 1
  /\ nextTpl = 3
  /\ now = MaxTime
  /\ faults = 0
  /\ last = NoLast
  /\ hist = NoRows

NextRace ==
  \/ free_appliance_shepherd_run
  \/ free_appliance_shepherd_read
  \/ free_appliance_shepherd_kill
  \/ \E p \in Ids(pools) : \E lease \in Leases : request_appliance_pool(p, lease)
  \/ kill_appliance

SpecRace == InitRace /\ [][NextRace]_vars

\* C36: every appliance a step of the shepherd kills, as surplus or as older
\* generation, is attached to no pool when the shepherd kills it.
C36_ShepherdKillsOnlyUnattached ==
  [][last'.task = "free_appliance_shepherd" =>
       \A a \in last'.ids \cap Ids(appliances) : appliances[a].pool = None
  ]_vars

\* --------------------------------------------- the sweep and its workflows
\* Two ready appliances of a pool, each with its lease run out or with none,
\* and the kill_unused_appliances loop beside the workers that run the kill
\* workflows.
InitSweep ==
  /\ start = Started
  /\ rpools = NoRows
  /\ surplus = NoSurplus
  /\ groups = [g \in Groups |-> [template_pool_size |-> 1]]
  /\ providers = [p \in Providers |-> Provider(TRUE, TRUE)]
  /\ templates = [t \in {1} |-> ReadyTemplate(1, 1, 1, 1, 1)]
  /\ tvms = [t \in 1 .. MaxTemplates |-> IF t = 1 THEN "template" ELSE "absent"]
  /\ appliances \in [{1, 2} -> [template : {1}, pool : {1}, ready : {TRUE},
                                marked : {FALSE}, power : {"on"}, ip : {TRUE},
                                leased_until : {NoTime, 0},
                                datetime_leased : {0}, status_changed : {0}]]
  /\ vms = [a \in ApplianceIds |-> IF a \in {1, 2} THEN "running" ELSE "absent"]
  /\ pools = [p \in {1} |-> [group |-> 1, total_count |-> 2, version |-> None,
                             date |-> None, lease |-> 1]]
  /\ dpts = EmptyBag
  /\ queue = One(Loop("kill_unused_appliances"))
  /\ nextId = 3
  /\ nextTpl = 2
  /\ now = 0
  /\ faults = 0
  /\ last = NoLast
  /\ hist = NoRows

NextSweep ==
  \/ kill_unused_appliances_run
  \/ kill_appliance
  \/ appliance_power_off
  \/ kill_appliance_delete
  \/ \E a \in ApplianceIds : VmSettle(a)

SpecSweep == InitSweep /\ [][NextSweep]_vars

\* A kill workflow of appliance a is in flight: one of its requests is queued.
KillInFlight(a) == \E m \in Pending : m.task \in KillSteps /\ m.id = a

\* C37: a pass of kill_unused_appliances sends kill_appliance for no
\* appliance that has a kill workflow in flight, so that an appliance whose
\* lease has run out has at most one kill workflow at any time.
C37_OneKillWorkflow ==
  [][last'.task = "kill_unused_appliances" =>
       \A a \in last'.ids : ~KillInFlight(a)
  ]_vars

\* --------------------------------------------- readiness and the IP address
ReadyTasks == {"retrieve_appliance_ip", "wait_appliance_ready"}

ReadyCap(t) == IF t = "wait_appliance_ready" THEN WaitReadyRetries ELSE RetrieveIpRetries

\* appliance_power_on found the VM of appliance 1 running and sent both
\* tasks; each of them is at its first invocation or near the end of its
\* retries, and the row may or may not have its power state and IP address.
InitReady ==
  /\ start = NotStarted
  /\ rpools = NoRows
  /\ surplus = NoSurplus
  /\ groups = [g \in Groups |-> [template_pool_size |-> 1]]
  /\ providers = [p \in Providers |-> Provider(TRUE, TRUE)]
  /\ templates = [t \in {1} |-> ReadyTemplate(1, 1, 1, 1, 1)]
  /\ \E pw \in {"unknown", "on"} : \E ip \in BOOLEAN : \E v \in VmStates :
       /\ appliances = [a \in {1} |->
                          [template |-> 1, pool |-> None, ready |-> FALSE,
                           marked |-> FALSE, power |-> pw, ip |-> ip,
                           leased_until |-> NoTime, datetime_leased |-> NoTime,
                           status_changed |-> 0]]
       /\ vms = [a \in ApplianceIds |-> IF a = 1 THEN v ELSE "absent"]
  /\ pools = NoRows
  /\ dpts = EmptyBag
  /\ tvms = [t \in 1 .. MaxTemplates |-> IF t = 1 THEN "template" ELSE "absent"]
  /\ \E r \in [ReadyTasks -> {0, 1, 2}] :
       queue = BagUnion({One([Msg(Sig(t, 1, None, FALSE, NoAux), << >>, << >>) EXCEPT
                                !.retries = IF r[t] = 0 THEN 0 ELSE ReadyCap(t) + 1 - r[t]])
                         : t \in ReadyTasks})
  /\ nextId = 2
  /\ nextTpl = 2
  /\ now = 0
  /\ faults = 0
  /\ last = NoLast
  /\ hist = NoRows

NextReady ==
  \/ retrieve_appliance_ip
  \/ wait_appliance_ready
  \/ \E a \in ApplianceIds : VmSettle(a)

SpecReady == InitReady /\ [][NextReady]_vars

\* The step was an invocation of task t for the appliance row a.
ReadyStep(t, a) == last'.task = t /\ last'.id = a /\ a \in Ids(appliances)

\* The invocation was of a request whose retries are used up, and it failed.
ReadyGaveUp(t, a) ==
  \E m \in Pending :
    /\ m.task = t /\ m.id = a /\ Exhausted(m, ReadyCap(t))
    /\ queue' = Fail(Take(m), m)

\* What the two tasks do while the appliance is not up, `settled` being what
\* becomes of the request: wait_appliance_ready leaves the row as it is when
\* power_state is unknown or no IP address is stored, retrieve_appliance_ip
\* leaves the stored address as it is when the provider gives none, and no
\* step takes a stored address away or makes such a row ready.
NotUpPoll(a, settled(_)) ==
  /\ (/\ ReadyStep("wait_appliance_ready", a)
      /\ (appliances[a].power = "unknown" \/ ~appliances[a].ip)) =>
       /\ appliances'[a] = appliances[a]
       /\ settled("wait_appliance_ready")
  /\ (ReadyStep("retrieve_appliance_ip", a) /\ last'.out = "retry") =>
       /\ appliances'[a].ip = appliances[a].ip
       /\ appliances'[a].ready = appliances[a].ready
       /\ settled("retrieve_appliance_ip")
  /\ (a \in Ids(appliances) /\ a \in Ids(appliances')) =>
       /\ appliances[a].ip => appliances'[a].ip
       /\ (~appliances[a].ready /\ appliances'[a].ready) =>
            appliances[a].power # "unknown" /\ appliances[a].ip

ResentFor(a, t) == Reinvoked(t, a)

ResentOrGaveUp(a, t) == Reinvoked(t, a) \/ ReadyGaveUp(t, a)

\* C38 as stated: wait_appliance_ready does not set ready=True in an
\* invocation that finds power_state unknown or no IP address on the row,
\* retrieve_appliance_ip stores no null address, and in those cases the
\* invocation schedules a re-invocation and does nothing else.
C38_NotUpOnlyRetries ==
  [][\A a \in ApplianceIds : NotUpPoll(a, LAMBDA t : ResentFor(a, t))]_vars

\* C38 amended: the same, except that the invocation of a request whose
\* retries are used up (45 for wait_appliance_ready, 20 for
\* retrieve_appliance_ip) schedules nothing and fails.
C38_NotUpRetriesWhileLeft ==
  [][\A a \in ApplianceIds : NotUpPoll(a, LAMBDA t : ResentOrGaveUp(a, t))]_vars

\* wait_appliance_ready met a row with no power state yet and asked for its
\* first retry.
C38_Witness ==
  /\ last.task = "wait_appliance_ready" /\ last.out = "retry" /\ last.id = 1
  /\ appliances[1].power = "unknown" /\ ~appliances[1].ready
  /\ \E m \in Pending : m.task = "wait_appliance_ready" /\ m.retries = 1

\* ------------------------------------------------ the pool in a with block
\* __enter__(self): return type(self)(*args, **kwargs), called by the with
\* statement without arguments: the id of the object it hands back.
Enter_Self(rp, self) == self

Enter(rp, self) == Cardinality(Ids(rp)) + 1

\* "with pool_class(processes=3) as pool:": the pool is constructed, its
\* __enter__ runs and what it returns is bound to the name.
with_enter ==
  LET self == Cardinality(Ids(rpools)) + 1
      made == Put(rpools, self, [NewPool(rpools) EXCEPT !.manager = TRUE])
      pool == Enter(made, self)
      all == IF pool \in Ids(made) THEN made ELSE Put(made, pool, NewPool(made))
  IN /\ \A p \in Ids(rpools) : ~rpools[p].manager
     /\ Cardinality(Ids(all)) <= MaxPools
     /\ rpools' = [all EXCEPT ![pool].bound = TRUE]
     /\ last' = Did("__enter__", self, None, "returned", {pool})
     /\ UNCHANGED <<start, surplus, groups, providers, templates, appliances, pools, dpts,
                    vms, tvms, queue, nextId, nextTpl, now, faults, hist>>

\* pool.apply_async(...) in the body of the block.
with_apply_async ==
  \E p \in Ids(rpools) :
    /\ rpools[p].bound
    /\ \E a \in Ids(rpools) : rpools[a].manager /\ ~rpools[a].closed
    /\ Submit("apply_async", p)

\* The block ends: __exit__ of the object the with statement was given
\* closes it and joins it, which lasts until its own calls have finished.
with_exit ==
  \E self \in Ids(rpools) :
    /\ rpools[self].manager /\ ~rpools[self].closed
    /\ \A i \in DOMAIN rpools[self].results : rpools[self].results[i] # "pending"
    /\ rpools' = [rpools EXCEPT ![self].closed = TRUE]
    /\ last' = Did("__exit__", self, None, "returned", {})
    /\ UNCHANGED <<start, surplus, groups, providers, templates, appliances, pools, dpts,
                   vms, tvms, queue, nextId, nextTpl, now, faults, hist>>

NextWith ==
  \/ with_enter
  \/ with_apply_async
  \/ ResultReady
  \/ with_exit
  \/ successful

SpecWith == InitPool /\ [][NextWith]_vars

\* C39: once the with block has ended, the pool that was bound to the name
\* in the block is the pool that __exit__ closed and joined, and every call
\* submitted to it has finished.
C39_WithJoinsBoundPool ==
  \A self \in Ids(rpools) : \A pool \in Ids(rpools) :
    (rpools[self].manager /\ rpools[self].closed /\ rpools[pool].bound) =>
      /\ pool = self
      /\ rpools[pool].closed
      /\ \A i \in DOMAIN rpools[pool].results : rpools[pool].results[i] # "pending"

====
